---- MODULE Spec2Model ----
(***************************************************************************)
(* Bulk batch-operation orchestrator with rollback history.                *)
(*                                                                         *)
(*   src/lib/universal-history.ts            UniversalHistoryManager       *)
(*   src/components/bulk-discount-system.tsx applyDiscount,                *)
(*                                           rollbackDiscounts             *)
(*   src/unnamed/part_000                    history modal, handleRollback *)
(*                                                                         *)
(* An action is the code that runs between two awaits: JavaScript runs a   *)
(* handler to its next await without interleaving.  Display strings        *)
(* (descriptions, titles, progress labels) are left out; every field the   *)
(* history manager branches on or copies between entries is kept.          *)
(* Identifiers: `hist_<time>_<random>` and `batch_<time>_<random>` are     *)
(* modelled as <<"hist", n>> and <<"batch", n>> with n a fresh counter     *)
(* value, so two identifiers are equal only if they were generated by the  *)
(* same call, and an entry id never equals a batch id (different prefix).  *)
(***************************************************************************)
EXTENDS Integers, Sequences, FiniteSets, TLC

VARIABLES
    store,              \* localStorage["shopify_universal_history"], most recent first
    nextId,             \* source of Date.now()/Math.random() identifiers
    recorded,           \* log: the batches createBulkOperation returned, with their size
    selectedVariants,   \* React state of BulkDiscountSystem
    results,
    message,
    isApplying,
    isProcessing,
    processProgress,
    run,                \* the locals of the applyDiscount / rollbackDiscounts call in progress
    requests,           \* log: variant ids of the remote requests the current run has issued
    inFlight,           \* the variant ids whose remote request has no answer yet
    resetTimers,        \* pending setTimeout(..., 2000) callbacks of finished runs
    rb,                 \* the locals of the rollbackOperation call in progress
    rbRequests,         \* log: the entries the last rollbackOperation call issued a request for
    rbResult,           \* the RollbackResult last returned by rollbackOperation
    queried,            \* log: the last getFilteredEntries call, its filter and its result
    calculated,         \* log: the last calculateNewPrice call, its inputs and its result
    storageFull,        \* localStorage.setItem throws (the quota is exceeded)
    remote              \* the remote store (variants, metafields) and the last route handler call

vars == <<store, nextId, recorded, selectedVariants, results, message, isApplying,
          isProcessing, processProgress, run, requests, inFlight, resetTimers, rb,
          rbRequests, rbResult, queried, calculated, storageFull, remote>>

uiVars == <<selectedVariants, results, message, isApplying, isProcessing,
            processProgress, run, requests, inFlight, resetTimers>>

rbVars == <<rb, rbRequests, rbResult>>

----------------------------------------------------------------------------
(* Bounds of the model *)

\* variants in the catalogue (allVariants)
NumVariants == 4

\* identifiers (entry ids and batch ids) the history manager issues in a behaviour
MaxIds == 7

\* identifiers the runs of the bulk discount screen may use up in a behaviour
MaxRunIds == 6

\* reset timers of finished runs that may be pending at once
MaxTimers == 1

\* UniversalHistoryManager.MAX_ENTRIES is 5000 in the source; the model keeps the
\* trimming code and scales the capacity so that a full store is reachable.
MAX_ENTRIES == 4

\* `const batchSize = 2` in applyDiscount and in rollbackDiscounts
batchSize == 2

Variants == 1 .. NumVariants

Min(a, b) == IF a < b THEN a ELSE b

----------------------------------------------------------------------------
(* UniversalHistoryEntry *)

Undefined == <<"undefined", 0>>

HistId(n) == <<"hist", n>>

\* NewBatchId without the clock and the random suffix: every batch gets the same id
NewBatchIdReused(n) == <<"batch", 1>>

NewBatchId(n) == <<"batch", n>>

\* oldValues / newValues objects; `present = FALSE` is the absent (undefined) object,
\* price and compareAtPrice are in cents, compareAtPrice 0 is null
NoValues == [present |-> FALSE, price |-> 0, compareAtPrice |-> 0]

Values(p, c) == [present |-> TRUE, price |-> p, compareAtPrice |-> c]

NoPayload == [present |-> FALSE, id |-> 0, values |-> NoValues]

NoRollbackData ==
    [present |-> FALSE, canRollback |-> FALSE, rollbackType |-> "none",
     rollbackPayload |-> NoPayload]

RollbackData(can, type, payload) ==
    [present |-> TRUE, canRollback |-> can, rollbackType |-> type,
     rollbackPayload |-> payload]

NoSummary == [present |-> FALSE, totalItems |-> 0, successfulItems |-> 0, failedItems |-> 0]

\* An entry as passed to createEntry (Omit<UniversalHistoryEntry, "id" | "timestamp">).
\* productId 0, productTitle "" and sku "" are the absent fields; a text is the sequence
\* of its words; timestamp is the clock value the entry was created at.
BlankEntry ==
    [id |-> Undefined, timestamp |-> 0, operationType |-> "product_update",
     category |-> "product", productId |-> 0, productTitle |-> "", variantId |-> 0,
     sku |-> "", description |-> <<>>,
     status |-> "success", action |-> "", oldValues |-> NoValues, newValues |-> NoValues,
     batchId |-> Undefined, parentBatchId |-> Undefined, rollbackData |-> NoRollbackData,
     affectedProducts |-> {}, bulkOperationSummary |-> NoSummary,
     originalEntryId |-> Undefined]

\* the catalogue: variant v costs 10.00 * v; variant 2 is already discounted
\* (compareAtPrice 25.00 > price 20.00), the others have no compareAtPrice
VariantPrice(v) == 1000 * v

VariantCompareAt(v) == IF v = 2 THEN 2500 ELSE 0

\* two variants per product
ProductOf(v) == (v + 1) \div 2

ProductTitle(p) == IF p = 1 THEN "Shirt" ELSE "Mug"

\* `variant?.sku || ""`: only variant 1 has a SKU
Sku(v) == IF v = 1 THEN "SKU-1" ELSE ""

\* the category each caller passes with the operation type
CategoryOf(operationType) ==
    IF operationType = "product_update" THEN "product" ELSE "pricing"

----------------------------------------------------------------------------
(* UniversalHistoryManager: storage *)

\* SaveEntry with push in place of unshift: the entry goes to the end
SaveEntryPush(st, entry) ==
    SubSeq(st \o <<entry>>, 1, Min(Len(st) + 1, MAX_ENTRIES))

\* SaveEntry trimming from the wrong end: slice(-MAX_ENTRIES) keeps the oldest entries
SaveEntryKeepLast(st, entry) ==
    LET all == <<entry>> \o st
    IN  SubSeq(all, Len(all) - Min(Len(all), MAX_ENTRIES) + 1, Len(all))

\* saveEntry: entries.unshift(entry); entries.slice(0, MAX_ENTRIES); setItem, whose
\* error is caught and logged: the stored history stays as it was
SaveEntry(st, entry) ==
    IF storageFull THEN st ELSE SubSeq(<<entry>> \o st, 1, Min(Len(st) + 1, MAX_ENTRIES))

\* other writers fill localStorage up to its quota, or free it again
SetStorageFull(full) ==
    /\ storageFull # full
    /\ storageFull' = full
    /\ UNCHANGED <<store, nextId, recorded, uiVars, rbVars, queried, calculated, remote>>

\* createEntry: assigns the id, saves; `n` is the counter value the id is built from
CreateEntry(st, n, entry) ==
    SaveEntry(st, [entry EXCEPT !.id = HistId(n), !.timestamp = n])

\* MainEntry with every item counted as failed as well as successful
MainEntryMiscounted(operationType, batchId, affectedItems, hasPayload) ==
    [BlankEntry EXCEPT
        !.operationType = operationType,
        !.action = "bulk_operation",
        !.batchId = batchId,
        !.bulkOperationSummary =
            [present |-> TRUE, totalItems |-> Len(affectedItems),
             successfulItems |-> Len(affectedItems), failedItems |-> Len(affectedItems)]]

\* the main entry createBulkOperation builds; rollbackData only with a rollbackPayload
MainEntry(operationType, batchId, affectedItems, hasPayload) ==
    [BlankEntry EXCEPT
        !.operationType = operationType,
        !.category = CategoryOf(operationType),
        !.description = <<"Bulk", "Discount", "items">>,
        !.affectedProducts =
            {affectedItems[i].productId : i \in 1 .. Len(affectedItems)},
        !.status = "success",
        !.action = "bulk_operation",
        !.batchId = batchId,
        !.rollbackData =
            IF hasPayload
            THEN RollbackData(TRUE, "batch_operation",
                              [present |-> TRUE, id |-> 0, values |-> NoValues])
            ELSE NoRollbackData,
        !.bulkOperationSummary =
            [present |-> TRUE, totalItems |-> Len(affectedItems),
             successfulItems |-> Len(affectedItems), failedItems |-> 0]]

\* IndividualEntry without the link to its batch
IndividualEntryUnlinked(operationType, batchId, item) ==
    [BlankEntry EXCEPT
        !.operationType = operationType,
        !.productId = item.productId,
        !.variantId = item.variantId,
        !.action = "individual_item_in_bulk",
        !.oldValues = item.oldValues,
        !.newValues = item.newValues,
        !.batchId = batchId,
        !.rollbackData =
            RollbackData(TRUE, "api_call",
                         [present |-> TRUE, id |-> item.variantId, values |-> item.oldValues])]

\* the entry createBulkOperation builds for one affected item
IndividualEntry(operationType, batchId, item) ==
    [BlankEntry EXCEPT
        !.operationType = operationType,
        !.category = CategoryOf(operationType),
        !.productId = item.productId,
        !.productTitle = ProductTitle(item.productId),
        !.variantId = item.variantId,
        !.sku = Sku(item.variantId),
        !.description = <<"Bulk", "Discount", ProductTitle(item.productId)>>,
        !.status = "success",
        !.action = "individual_item_in_bulk",
        !.oldValues = item.oldValues,
        !.newValues = item.newValues,
        !.batchId = batchId,
        !.parentBatchId = batchId,
        !.rollbackData =
            RollbackData(TRUE, "api_call",
                         [present |-> TRUE,
                          id |-> IF item.variantId # 0 THEN item.variantId
                                                       ELSE item.productId,
                          values |-> item.oldValues])]

\* affectedItems.forEach(item => this.createEntry(...)), ids n, n+1, ...
RECURSIVE SaveIndividualEntries(_, _, _, _, _)
SaveIndividualEntries(st, n, operationType, batchId, items) ==
    IF items = <<>> THEN st
    ELSE SaveIndividualEntries(
            CreateEntry(st, n, IndividualEntry(operationType, batchId, Head(items))),
            n + 1, operationType, batchId, Tail(items))

\* createBulkOperation: the store afterwards, the counter afterwards, the batch id
CreateBulkOperation(st, n, operationType, affectedItems, hasPayload) ==
    LET batchId   == NewBatchId(n)
        withMain  == CreateEntry(st, n + 1,
                                 MainEntry(operationType, batchId, affectedItems, hasPayload))
    IN  [store   |-> SaveIndividualEntries(withMain, n + 2, operationType, batchId,
                                           affectedItems),
         nextId  |-> n + 2 + Len(affectedItems),
         batchId |-> batchId,
         size    |-> Len(affectedItems)]

----------------------------------------------------------------------------
(* UniversalHistoryManager: queries *)

\* HistoryFilter; a field that is not set (undefined, or the empty string, which the
\* `if (filter.x)` tests treat alike) is "", 0, Undefined or a dateRange not present
NoDateRange == [present |-> FALSE, start |-> 0, end |-> 0]

DateRange(start, end) == [present |-> TRUE, start |-> start, end |-> end]

NoFilter ==
    [category |-> "", operationType |-> "", status |-> "", productId |-> 0,
     batchId |-> Undefined, searchTerm |-> "", dateRange |-> NoDateRange]

\* String.prototype.toLowerCase on the words of the model
ToLowerCase(word) ==
    CASE word = "Shirt" -> "shirt"
      [] word = "SHIRT" -> "shirt"
      [] word = "Mug" -> "mug"
      [] word = "Bulk" -> "bulk"
      [] word = "Discount" -> "discount"
      [] word = "Product" -> "product"
      [] word = "Updated" -> "updated"
      [] word = "Rolled" -> "rolled"
      [] word = "SKU-1" -> "sku-1"
      [] OTHER -> word

\* text.toLowerCase().includes(term), at the granularity of words
Includes(text, term) == \E i \in 1 .. Len(text) : ToLowerCase(text[i]) = term

\* `new Date(x)`: a date string that does not parse (modelled as a negative number)
\* gives an Invalid Date, and every comparison with it is false
ValidDate(x) == x >= 0

\* FilterByProductId that looks at entry.productId only
FilterByProductIdDirectOnly(entries, productId) ==
    SelectSeq(entries, LAMBDA e : e.productId = productId)

\* entry.productId === filter.productId
\*   || entry.metadata?.affectedProducts?.includes(filter.productId)
FilterByProductId(entries, productId) ==
    SelectSeq(entries, LAMBDA e : e.productId = productId
                                  \/ productId \in e.affectedProducts)

\* entry.operationData.batchId === batchId || entry.operationData.parentBatchId === batchId
FilterByBatchId(entries, batchId) ==
    SelectSeq(entries, LAMBDA e : e.batchId = batchId \/ e.parentBatchId = batchId)

\* description, productTitle or sku includes the lower-cased term
FilterBySearchTerm(entries, searchTerm) ==
    LET term == ToLowerCase(searchTerm)
    IN  SelectSeq(entries, LAMBDA e :
            \/ Includes(e.description, term)
            \/ (e.productTitle # "" /\ Includes(<<e.productTitle>>, term))
            \/ (e.sku # "" /\ Includes(<<e.sku>>, term)))

\* entryDate >= start && entryDate <= end
FilterByDateRange(entries, dateRange) ==
    SelectSeq(entries, LAMBDA e :
        /\ ValidDate(dateRange.start)
        /\ ValidDate(dateRange.end)
        /\ e.timestamp >= dateRange.start
        /\ e.timestamp <= dateRange.end)

\* getFilteredEntries: the filters are applied one after the other to getAllEntries()
GetFilteredEntries(st, filter) ==
    LET f1 == IF filter.category # ""
              THEN SelectSeq(st, LAMBDA e : e.category = filter.category) ELSE st
        f2 == IF filter.operationType # ""
              THEN SelectSeq(f1, LAMBDA e : e.operationType = filter.operationType) ELSE f1
        f3 == IF filter.status # ""
              THEN SelectSeq(f2, LAMBDA e : e.status = filter.status) ELSE f2
        f4 == IF filter.productId # 0 THEN FilterByProductId(f3, filter.productId) ELSE f3
        f5 == IF filter.batchId # Undefined THEN FilterByBatchId(f4, filter.batchId) ELSE f4
        f6 == IF filter.searchTerm # ""
              THEN FilterBySearchTerm(f5, filter.searchTerm) ELSE f5
        f7 == IF filter.dateRange.present
              THEN FilterByDateRange(f6, filter.dateRange) ELSE f6
    IN  f7

\* the value of `queried` before any call
NoQuery == [filter |-> NoFilter, result |-> <<>>, calls |-> 0]

\* the filters getFilteredEntries is called with: each field alone, and combinations
Filters(st) ==
    LET batchIds == {st[i].batchId : i \in 1 .. Len(st)} \ {Undefined}
    IN  {NoFilter}
        \cup {[NoFilter EXCEPT !.category = "pricing"]}
        \cup {[NoFilter EXCEPT !.operationType = "product_update"]}
        \cup {[NoFilter EXCEPT !.status = "error"]}
        \cup {[NoFilter EXCEPT !.productId = 1]}
        \cup {[NoFilter EXCEPT !.batchId = b] : b \in batchIds}
        \cup {[NoFilter EXCEPT !.searchTerm = t] : t \in {"SHIRT", "sku-1"}}
        \cup {[NoFilter EXCEPT !.dateRange = DateRange(2, 3)],
              [NoFilter EXCEPT !.dateRange = DateRange(-1, 3)]}
        \cup {[NoFilter EXCEPT !.category = "pricing", !.productId = 1,
                               !.searchTerm = "discount"],
              [NoFilter EXCEPT !.operationType = "bulk_discount", !.productId = 2,
                               !.dateRange = DateRange(1, 4)]}
        \cup {[NoFilter EXCEPT !.batchId = b, !.searchTerm = "Shirt", !.status = "success"] :
                  b \in batchIds}

\* a call of getFilteredEntries(filter): it reads the store and returns the result.
\* The caller asks once, and then once more with the same filter.
GetFilteredEntriesCall(filter) ==
    /\ queried.calls = 0 \/ (queried.calls = 1 /\ filter = queried.filter)
    /\ queried' = [filter |-> filter,
                   result |-> GetFilteredEntries(store, filter),
                   calls  |-> queried.calls + 1]
    /\ UNCHANGED <<store, nextId, recorded, uiVars, rbVars, calculated, storageFull, remote>>

GetBatchHistory(st, batchId) ==
    SelectSeq(st, LAMBDA e : e.batchId = batchId \/ e.parentBatchId = batchId)

GetBulkOperations(st) == SelectSeq(st, LAMBDA e : e.action = "bulk_operation")

\* GetBulkOperationItems by the predicate of the batchId filter
GetBulkOperationItemsByBatch(st, batchId) ==
    SelectSeq(st, LAMBDA e : e.batchId = batchId \/ e.parentBatchId = batchId)

GetBulkOperationItems(st, batchId) ==
    SelectSeq(st, LAMBDA e : e.parentBatchId = batchId)

\* this.getAllEntries().find(e => e.id === entryId): <<>> when there is none
FindEntry(st, entryId) ==
    LET hits == SelectSeq(st, LAMBDA e : e.id = entryId)
    IN  IF hits = <<>> THEN <<>> ELSE <<Head(hits)>>

Ids(st) == {st[i].id : i \in 1 .. Len(st)}

Entries(st) == {st[i] : i \in 1 .. Len(st)}

Count(st, action) == Len(SelectSeq(st, LAMBDA e : e.action = action))

----------------------------------------------------------------------------
(* UniversalHistoryManager: rollback *)

RbIdle ==
    [pc |-> "idle", entry |-> BlankEntry, children |-> <<>>, idx |-> 0,
     affected |-> <<>>, errors |-> <<>>]

NoResult ==
    [entryId |-> Undefined, success |-> FALSE, message |-> "", affectedEntries |-> <<>>,
     errors |-> <<>>]

Result(entryId, success, msg, affected, errors) ==
    [entryId |-> entryId, success |-> success, message |-> msg,
     affectedEntries |-> affected, errors |-> errors]

\* `if (!entry.rollbackData?.canRollback) return {success: false, ...}`
CanRollback(entry) == entry.rollbackData.present /\ entry.rollbackData.canRollback

\* the operation types executeApiRollback has a case for; the default case throws
ApiRollbackSupported(entry) ==
    entry.operationType \in {"product_update", "bulk_price_update", "bulk_discount"}

\* RollbackEntry with oldValues and newValues copied, not swapped
RollbackEntryUnswapped(entry) ==
    [BlankEntry EXCEPT
        !.operationType = entry.operationType,
        !.productId = entry.productId,
        !.variantId = entry.variantId,
        !.action = "rollback",
        !.oldValues = entry.oldValues,
        !.newValues = entry.newValues,
        !.batchId = entry.batchId,
        !.rollbackData = RollbackData(FALSE, "api_call", NoPayload),
        !.originalEntryId = entry.id]

\* the entry rollbackOperation creates when executeRollback returned success
RollbackEntry(entry) ==
    [BlankEntry EXCEPT
        !.operationType = entry.operationType,
        !.category = entry.category,
        !.productId = entry.productId,
        !.productTitle = entry.productTitle,
        !.variantId = entry.variantId,
        !.sku = entry.sku,
        !.description = <<"Rolled", "back">> \o entry.description,
        !.affectedProducts = entry.affectedProducts,
        !.status = "success",
        !.action = "rollback",
        !.oldValues = entry.newValues,
        !.newValues = entry.oldValues,
        !.batchId = entry.batchId,
        !.rollbackData = RollbackData(FALSE, "api_call", NoPayload),
        !.bulkOperationSummary = entry.bulkOperationSummary,
        !.originalEntryId = entry.id]

\* RollbackReturn that also marks the entry it rolled back as no longer rollback-able
RollbackReturnMarking(entry, result) ==
    /\ rbResult' = result
    /\ rb' = RbIdle
    /\ IF result.success
       THEN /\ store' = CreateEntry(
                            [i \in 1 .. Len(store) |->
                                IF store[i].id = entry.id
                                THEN [store[i] EXCEPT !.rollbackData.canRollback = FALSE]
                                ELSE store[i]],
                            nextId, RollbackEntry(entry))
            /\ nextId' = nextId + 1
       ELSE UNCHANGED <<store, nextId>>

\* rollbackOperation returns `result`: on success the rollback entry is created first
RollbackReturn(entry, result) ==
    /\ rbResult' = result
    /\ rb' = RbIdle
    /\ IF result.success
       THEN /\ store' = CreateEntry(store, nextId, RollbackEntry(entry))
            /\ nextId' = nextId + 1
       ELSE UNCHANGED <<store, nextId>>

\* rollbackOperation without its catch block: the error leaves the call uncaught
CatchErrorRethrown(entry, msg) ==
    /\ rbResult' = [NoResult EXCEPT !.entryId = entry.id, !.message = "uncaught"]
    /\ rb' = RbIdle
    /\ UNCHANGED <<store, nextId>>

\* the catch block of rollbackOperation: an error thrown by executeRollback is returned
\* as a result with success = false and the message of the error
CatchError(entry, msg) ==
    RollbackReturn(entry, Result(entry.id, FALSE, msg, <<>>, <<>>))

\* executeBatchRollback's loop from child i on: a child whose executeApiRollback throws
\* before any request (it has no rollbackData to destructure, or there is no case for
\* its operation type) is recorded as an error and the loop goes on; the loop stops at
\* the first child a request is issued for.  The loop does not read canRollback.
RECURSIVE BatchLoop(_, _, _)
BatchLoop(children, i, errors) ==
    IF i > Len(children)
       \/ (children[i].rollbackData.present /\ ApiRollbackSupported(children[i]))
    THEN [idx |-> i, errors |-> errors]
    ELSE BatchLoop(children, i + 1, Append(errors, children[i].id))

\* executeBatchRollback that gives up at the first child that failed
BatchContinueAborting(entry, children, i, affected, errors, issued) ==
    LET at == BatchLoop(children, i, errors)
    IN  IF at.idx <= Len(children) /\ at.errors = <<>>
        THEN /\ rb' = [pc |-> "batch", entry |-> entry, children |-> children,
                       idx |-> at.idx, affected |-> affected, errors |-> at.errors]
             /\ rbRequests' = Append(issued, children[at.idx])
             /\ UNCHANGED <<store, nextId, rbResult>>
        ELSE /\ RollbackReturn(entry,
                    Result(entry.id, at.errors = <<>>, "Rolled back", affected, at.errors))
             /\ rbRequests' = issued

\* executeBatchRollback from child i on, up to its next await or its return
\* (`issued`: the requests of this call so far)
BatchContinue(entry, children, i, affected, errors, issued) ==
    LET at == BatchLoop(children, i, errors)
    IN  IF at.idx <= Len(children)
        THEN /\ rb' = [pc |-> "batch", entry |-> entry, children |-> children,
                       idx |-> at.idx, affected |-> affected, errors |-> at.errors]
             /\ rbRequests' = Append(issued, children[at.idx])
             /\ UNCHANGED <<store, nextId, rbResult>>
        ELSE /\ RollbackReturn(entry,
                    Result(entry.id, at.errors = <<>>, "Rolled back", affected, at.errors))
             /\ rbRequests' = issued

\* executeRollback's switch, up to the first await or the return of rollbackOperation
ExecuteRollback(entry) ==
    CASE entry.rollbackData.rollbackType = "api_call" ->
            IF ApiRollbackSupported(entry)
            THEN /\ rb' = [RbIdle EXCEPT !.pc = "api", !.entry = entry]
                 /\ rbRequests' = <<entry>>
                 /\ UNCHANGED <<store, nextId, rbResult>>
            ELSE /\ CatchError(entry, "Rollback not implemented")
                 /\ rbRequests' = <<>>
      [] entry.rollbackData.rollbackType = "batch_operation" ->
            BatchContinue(entry, GetBulkOperationItems(store, entry.batchId), 1, <<>>, <<>>,
                          <<>>)
      [] entry.rollbackData.rollbackType = "file_restore" ->
            /\ CatchError(entry, "File rollback not yet implemented")
            /\ rbRequests' = <<>>
      [] OTHER ->
            /\ CatchError(entry, "Unknown rollback type")
            /\ rbRequests' = <<>>

\* rollbackOperation(entryId), up to its first await or its return
RollbackOperation(entryId) ==
    /\ rb.pc = "idle"
    /\ nextId <= MaxIds
    /\ LET found == FindEntry(store, entryId)
       IN  IF found = <<>>
           THEN /\ rbResult' = Result(entryId, FALSE, "History entry not found", <<>>, <<>>)
                /\ rbRequests' = <<>>
                /\ UNCHANGED <<store, nextId, rb>>
           ELSE IF ~CanRollback(found[1])
           THEN /\ rbResult' = Result(entryId, FALSE, "This operation cannot be rolled back",
                                      <<>>, <<>>)
                /\ rbRequests' = <<>>
                /\ UNCHANGED <<store, nextId, rb>>
           ELSE ExecuteRollback(found[1])
    /\ UNCHANGED <<recorded, uiVars>>
    /\ UNCHANGED <<queried, calculated, storageFull, remote>>

\* the answer to the request in flight: response.ok, a response that is not ok (the code
\* throws), or a rejected fetch
RollbackOutcomes == {"ok", "not_ok", "rejected"}

RollbackResponse(outcome) ==
    /\ rb.pc \in {"api", "batch"}
    /\ IF rb.pc = "api"
       THEN /\ IF outcome = "ok"
               THEN RollbackReturn(rb.entry,
                        Result(rb.entry.id, TRUE, "rolled back", <<rb.entry.id>>, <<>>))
               ELSE CatchError(rb.entry, "Failed to rollback")
            /\ UNCHANGED rbRequests
       ELSE LET child == rb.children[rb.idx]
            IN  IF outcome = "ok"
                THEN BatchContinue(rb.entry, rb.children, rb.idx + 1,
                                   Append(rb.affected, child.id), rb.errors, rbRequests)
                ELSE BatchContinue(rb.entry, rb.children, rb.idx + 1,
                                   rb.affected, Append(rb.errors, child.id), rbRequests)
    /\ UNCHANGED <<recorded, uiVars>>
    /\ UNCHANGED <<queried, calculated, storageFull, remote>>

\* clearHistory: localStorage.removeItem
ClearHistory ==
    /\ store # <<>>
    /\ store' = <<>>
    /\ recorded' = {}
    /\ UNCHANGED <<nextId, uiVars, rbVars>>
    /\ UNCHANGED <<queried, calculated, storageFull, remote>>

\* createProductHistoryEntry(action, productId, productTitle, oldValues, newValues)
ProductEntry(productId, oldValues, newValues) ==
    [BlankEntry EXCEPT
        !.operationType = "product_update",
        !.category = "product",
        !.productId = productId,
        !.productTitle = ProductTitle(productId),
        !.description = <<"Product", "Updated", ProductTitle(productId)>>,
        !.status = "success",
        !.action = "Product Updated",
        !.oldValues = oldValues,
        !.newValues = newValues,
        !.rollbackData =
            RollbackData(TRUE, "api_call",
                         [present |-> TRUE, id |-> productId, values |-> oldValues])]

\* Documents handed to importHistory: text that is not a JSON array, the empty array,
\* the export of a one-item bulk discount in which the child was edited to
\* canRollback = false, and an array of MAX_ENTRIES + 1 product entries (two exports
\* concatenated).  importHistory validates nothing but Array.isArray.
ImportedBatchId == <<"batch", 0>>

ImportedChild ==
    [BlankEntry EXCEPT
        !.id = <<"imported", 1>>,
        !.operationType = "bulk_discount",
        !.category = "pricing",
        !.productId = ProductOf(1),
        !.variantId = 1,
        !.status = "success",
        !.action = "individual_item_in_bulk",
        !.oldValues = Values(VariantPrice(1), 0),
        !.newValues = Values(VariantPrice(1) - 100, VariantPrice(1)),
        !.batchId = ImportedBatchId,
        !.parentBatchId = ImportedBatchId,
        !.rollbackData =
            RollbackData(FALSE, "api_call",
                         [present |-> TRUE, id |-> 1, values |-> Values(VariantPrice(1), 0)])]

ImportedMain ==
    [MainEntry("bulk_discount", ImportedBatchId, <<ImportedChild>>, TRUE)
        EXCEPT !.id = <<"imported", 2>>]

ImportedOversize ==
    [i \in 1 .. MAX_ENTRIES + 1 |->
        [ProductEntry(1, Values(1, 0), Values(2, 0)) EXCEPT !.id = <<"imported", 2 + i>>]]

ImportDocuments ==
    {[isArray |-> FALSE, entries |-> <<>>],
     [isArray |-> TRUE, entries |-> <<>>],
     [isArray |-> TRUE, entries |-> <<ImportedChild, ImportedMain>>],
     [isArray |-> TRUE, entries |-> ImportedOversize]}

\* importHistory(jsonData): an array replaces the stored history as it is
ImportHistory(doc) ==
    /\ IF doc.isArray
       THEN store' = doc.entries /\ recorded' = {}
       ELSE UNCHANGED <<store, recorded>>
    /\ UNCHANGED <<nextId, uiVars, rbVars>>
    /\ UNCHANGED <<queried, calculated, storageFull, remote>>

CreateProductHistoryEntry(productId) ==
    /\ nextId <= MaxIds
    /\ store' = CreateEntry(store, nextId, ProductEntry(productId, Values(1, 0), Values(2, 0)))
    /\ nextId' = nextId + 1
    /\ UNCHANGED <<recorded, uiVars, rbVars>>
    /\ UNCHANGED <<queried, calculated, storageFull, remote>>

\* createImageHistoryEntry(action, productId, productTitle, imageUrls)
ImageEntry(productId) ==
    [BlankEntry EXCEPT
        !.operationType = "image_upload",
        !.category = "images",
        !.productId = productId,
        !.productTitle = ProductTitle(productId),
        !.description = <<"Images", "Uploaded", ProductTitle(productId)>>,
        !.status = "success",
        !.action = "Images Uploaded",
        !.rollbackData = RollbackData(FALSE, "file_restore", NoPayload)]

CreateImageHistoryEntry(productId) ==
    /\ nextId <= MaxIds
    /\ store' = CreateEntry(store, nextId, ImageEntry(productId))
    /\ nextId' = nextId + 1
    /\ UNCHANGED <<recorded, uiVars, rbVars>>
    /\ UNCHANGED <<queried, calculated, storageFull, remote>>

\* An imported history of three entries marked canRollback = true that
\* executeRollback has no implementation for: an image entry (file_restore), a
\* product entry whose rollbackType is missing, and an image entry with api_call
ImportedFailures ==
    [isArray |-> TRUE,
     entries |->
        <<[ImageEntry(1) EXCEPT !.id = <<"imported", 1>>,
                                !.rollbackData = RollbackData(TRUE, "file_restore", NoPayload)],
          [ProductEntry(1, Values(1, 0), Values(2, 0))
              EXCEPT !.id = <<"imported", 2>>,
                     !.rollbackData = RollbackData(TRUE, "", NoPayload)],
          [ImageEntry(1) EXCEPT !.id = <<"imported", 3>>,
                                !.rollbackData = RollbackData(TRUE, "api_call", NoPayload)]>>]

----------------------------------------------------------------------------
(* BulkDiscountSystem: selection *)

\* The user changes the selection between runs; a run reads only the selection its
\* closure captured when it started, and ticks rows from top to bottom.
HandleVariantSelect(variantId, checked) ==
    /\ ~isApplying
    /\ IF checked
       THEN /\ \A i \in 1 .. Len(selectedVariants) : selectedVariants[i] < variantId
            /\ selectedVariants' = Append(selectedVariants, variantId)
       ELSE /\ \E i \in 1 .. Len(selectedVariants) : selectedVariants[i] = variantId
            /\ selectedVariants' = SelectSeq(selectedVariants, LAMBDA id : id # variantId)
    /\ UNCHANGED <<store, nextId, recorded, results, message, isApplying, isProcessing,
                   processProgress, run, requests, inFlight, resetTimers, rbVars>>
    /\ UNCHANGED <<queried, calculated, storageFull, remote>>

HandleSelectAll(checked) ==
    /\ ~isApplying
    /\ selectedVariants' = IF checked THEN [i \in 1 .. NumVariants |-> i] ELSE <<>>
    /\ selectedVariants' # selectedVariants
    /\ UNCHANGED <<store, nextId, recorded, results, message, isApplying, isProcessing,
                   processProgress, run, requests, inFlight, resetTimers, rbVars>>
    /\ UNCHANGED <<queried, calculated, storageFull, remote>>

----------------------------------------------------------------------------
(* BulkDiscountSystem: applyDiscount and rollbackDiscounts *)

RunIdle ==
    [pc |-> "idle", kind |-> "none", selectedVariants |-> <<>>, discountPercentage |-> 0,
     batches |-> <<>>, batchIndex |-> 0, batchPromises |-> <<>>, allResults |-> <<>>,
     completed |-> 0, successful |-> 0, failed |-> 0]

Progress(total, completed, successful, failed) ==
    [total |-> total, completed |-> completed, successful |-> successful, failed |-> failed]

\* Batches with the slice one item too long: slice(i, i + batchSize + 1)
RECURSIVE BatchesOversize(_)
BatchesOversize(variantIds) ==
    IF variantIds = <<>> THEN <<>>
    ELSE <<SubSeq(variantIds, 1, Min(batchSize + 1, Len(variantIds)))>>
         \o BatchesOversize(SubSeq(variantIds, Min(batchSize, Len(variantIds)) + 1,
                                   Len(variantIds)))

\* for (let i = 0; i < selectedVariants.length; i += batchSize)
\*     batches.push(selectedVariants.slice(i, i + batchSize))
RECURSIVE Batches(_)
Batches(variantIds) ==
    IF variantIds = <<>> THEN <<>>
    ELSE <<SubSeq(variantIds, 1, Min(batchSize, Len(variantIds)))>>
         \o Batches(SubSeq(variantIds, Min(batchSize, Len(variantIds)) + 1, Len(variantIds)))

\* what the apply-discount endpoint answers for a variant it updated: Type 2 when the
\* variant already has compare_at_price > price, Type 1 otherwise
DiscountResult(variantId, discountPercentage) ==
    LET price   == VariantPrice(variantId)
        compare == VariantCompareAt(variantId)
        base    == IF compare # 0 /\ compare > price THEN compare ELSE price
    IN  [variantId |-> variantId, success |-> TRUE, originalPrice |-> price,
         newPrice |-> (base * (100 - discountPercentage)) \div 100,
         compareAtPrice |-> base]

\* the DiscountResult the component builds itself when the request failed or threw
FailedResult(variantId) ==
    [variantId |-> variantId, success |-> FALSE, originalPrice |-> VariantPrice(variantId),
     newPrice |-> 0, compareAtPrice |-> 0]

\* what can happen to one request
ApplyOutcomes == {"success", "item_error", "http_error", "rejected"}

RollbackRunOutcomes == {"success", "http_error", "rejected"}

PendingPromise == [state |-> "pending", success |-> FALSE, result |-> FailedResult(0)]

\* ItemPromise without the try/catch around the fetch: a rejected fetch rejects the promise
ItemPromiseUncaught(kind, variantId, discountPercentage, outcome) ==
    IF outcome = "rejected"
    THEN [state |-> "rejected", success |-> FALSE, result |-> FailedResult(variantId)]
    ELSE [state |-> "fulfilled", success |-> outcome = "success",
          result |-> IF outcome = "success" /\ kind = "apply"
                     THEN DiscountResult(variantId, discountPercentage)
                     ELSE FailedResult(variantId)]

\* the promise of one item of a batch, once its request has an outcome: the async arrow
\* function catches everything, so the promise is fulfilled whatever the outcome
ItemPromise(kind, variantId, discountPercentage, outcome) ==
    IF kind = "apply"
    THEN CASE outcome = "success" ->
                [state |-> "fulfilled", success |-> TRUE,
                 result |-> DiscountResult(variantId, discountPercentage)]
           [] outcome = "item_error" ->
                [state |-> "fulfilled", success |-> FALSE,
                 result |-> [FailedResult(variantId) EXCEPT !.originalPrice = 0]]
           [] OTHER ->
                [state |-> "fulfilled", success |-> FALSE, result |-> FailedResult(variantId)]
    ELSE [state |-> "fulfilled", success |-> outcome = "success",
          result |-> FailedResult(variantId)]

\* Promise.all(batchPromises) has settled: every promise fulfilled, or one rejected
AllFulfilled(promises) == \A i \in 1 .. Len(promises) : promises[i].state = "fulfilled"

SomeRejected(promises) == \E i \in 1 .. Len(promises) : promises[i].state = "rejected"

\* Promise.race in place of Promise.all: settled as soon as one promise is
PromiseAnySettled(promises) == \E i \in 1 .. Len(promises) : promises[i].state # "pending"

PromiseAllSettled(promises) == AllFulfilled(promises) \/ SomeRejected(promises)

CountSuccess(promises) ==
    Len(SelectSeq(promises, LAMBDA p : p.success))

RECURSIVE ResultsOf(_)
ResultsOf(promises) ==
    IF promises = <<>> THEN <<>> ELSE <<Head(promises).result>> \o ResultsOf(Tail(promises))

\* batch.map(async variantId => ...): every request of the batch is issued at once
DispatchBatch(r, index) ==
    [r EXCEPT !.pc = "await", !.batchIndex = index,
              !.batchPromises = [i \in 1 .. Len(r.batches[index]) |-> PendingPromise]]

\* the local state of a run that passed validation, up to its first await
StartRun(kind, variantIds, discountPercentage) ==
    /\ isApplying' = TRUE
    /\ isProcessing' = TRUE
    /\ message' = "none"
    /\ results' = IF kind = "apply" THEN <<>> ELSE results
    /\ processProgress' = Progress(Len(variantIds), 0, 0, 0)
    /\ run' = DispatchBatch([RunIdle EXCEPT !.kind = kind,
                                            !.selectedVariants = variantIds,
                                            !.discountPercentage = discountPercentage,
                                            !.batches = Batches(variantIds)], 1)
    /\ requests' = Batches(variantIds)[1]
    /\ inFlight' = inFlight \cup {Batches(variantIds)[1][i] :
                                      i \in 1 .. Len(Batches(variantIds)[1])}
    /\ UNCHANGED <<selectedVariants, resetTimers>>

Percentages == {0, 10, 100}

ExpiryDates == {"", "past", "future"}

\* applyDiscount with the progress tracking started before the inputs are validated
ApplyDiscountProgressFirst(variantIds, discountPercentage, expiryDate) ==
    IF \/ Len(variantIds) = 0
       \/ discountPercentage <= 0 \/ discountPercentage >= 100
       \/ expiryDate = "past"
    THEN /\ message' = "error"
         /\ isProcessing' = TRUE
         /\ processProgress' = Progress(Len(variantIds), 0, 0, 0)
         /\ run' = RunIdle
         /\ UNCHANGED <<selectedVariants, results, isApplying,
                        requests, inFlight, resetTimers>>
    ELSE StartRun("apply", variantIds, discountPercentage)

\* applyDiscount as the closure that captured `variantIds` as selectedVariants; a
\* rejected call returns, which also ends a pending zero-delay timer that made it
ApplyDiscount(variantIds, discountPercentage, expiryDate) ==
    IF \/ Len(variantIds) = 0
       \/ discountPercentage <= 0 \/ discountPercentage >= 100
       \/ expiryDate = "past"
    THEN /\ message' = "error"
         /\ run' = RunIdle
         /\ UNCHANGED <<selectedVariants, results, isApplying, isProcessing,
                        processProgress, requests, inFlight, resetTimers>>
    ELSE StartRun("apply", variantIds, discountPercentage)

\* the Apply button: disabled={isApplying || selectedVariants.length === 0 || isProcessing}
ClickApplyDiscount(discountPercentage, expiryDate) ==
    /\ ~isApplying /\ ~isProcessing /\ Len(selectedVariants) # 0
    /\ run.pc = "idle"
    /\ nextId + Len(selectedVariants) + 1 <= MaxRunIds
    /\ ApplyDiscount(selectedVariants, discountPercentage, expiryDate)
    /\ UNCHANGED <<store, nextId, recorded, rbVars>>
    /\ UNCHANGED <<queried, calculated, storageFull, remote>>

RollbackDiscounts(variantIds) ==
    IF Len(variantIds) = 0
    THEN /\ message' = "error"
         /\ UNCHANGED <<selectedVariants, results, isApplying, isProcessing,
                        processProgress, run, requests, inFlight, resetTimers>>
    ELSE StartRun("rollback", variantIds, 0)

\* the Rollback button: disabled={isApplying || selectedVariants.length === 0}
ClickRollbackDiscounts ==
    /\ ~isApplying /\ Len(selectedVariants) # 0
    /\ run.pc = "idle"
    /\ nextId + Len(selectedVariants) + 1 <= MaxRunIds
    /\ RollbackDiscounts(selectedVariants)
    /\ UNCHANGED <<store, nextId, recorded, rbVars>>
    /\ UNCHANGED <<queried, calculated, storageFull, remote>>

\* one request of the batch in flight gets its outcome
SettleRequest(i, outcome) ==
    /\ run.pc = "await"
    /\ i \in 1 .. Len(run.batchPromises)
    /\ run.batchPromises[i].state = "pending"
    /\ outcome \in (IF run.kind = "apply" THEN ApplyOutcomes ELSE RollbackRunOutcomes)
    /\ run' = [run EXCEPT !.batchPromises[i] =
                   ItemPromise(run.kind, run.batches[run.batchIndex][i],
                               run.discountPercentage, outcome)]
    /\ inFlight' = inFlight \ {run.batches[run.batchIndex][i]}
    /\ UNCHANGED <<store, nextId, recorded, selectedVariants, results, message, isApplying,
                   isProcessing, processProgress, requests, resetTimers, rbVars>>
    /\ UNCHANGED <<queried, calculated, storageFull, remote>>

\* ApplyAffectedItems without the filter on success: every result becomes an item
RECURSIVE ApplyAffectedItemsUnfiltered(_)
ApplyAffectedItemsUnfiltered(allResults) ==
    IF allResults = <<>> THEN <<>>
    ELSE LET r == Head(allResults)
         IN  <<[productId |-> ProductOf(r.variantId), variantId |-> r.variantId,
                oldValues |-> Values(r.originalPrice, VariantCompareAt(r.variantId)),
                newValues |-> Values(r.newPrice, r.compareAtPrice)]>>
             \o ApplyAffectedItemsUnfiltered(Tail(allResults))

\* affectedItems of applyDiscount: the results with success, each with the values the
\* answer carried
RECURSIVE ApplyAffectedItems(_)
ApplyAffectedItems(allResults) ==
    IF allResults = <<>> THEN <<>>
    ELSE LET r == Head(allResults)
         IN  (IF r.success
              THEN <<[productId |-> ProductOf(r.variantId), variantId |-> r.variantId,
                      oldValues |-> Values(r.originalPrice, VariantCompareAt(r.variantId)),
                      newValues |-> Values(r.newPrice, r.compareAtPrice)]>>
              ELSE <<>>) \o ApplyAffectedItems(Tail(allResults))

\* affectedItems of rollbackDiscounts: every selected variant
RollbackAffectedItems(variantIds) ==
    [i \in 1 .. Len(variantIds) |->
        [productId |-> ProductOf(variantIds[i]), variantId |-> variantIds[i],
         oldValues |-> Values(VariantPrice(variantIds[i]), VariantCompareAt(variantIds[i])),
         newValues |-> Values(VariantPrice(variantIds[i]), 0)]]

\* RecordBulk with saveEntry letting the error of setItem escape: createBulkOperation
\* ends at its first createEntry and returns nothing
RecordBulkThrowing(operationType, affectedItems, hasPayload) ==
    IF storageFull
    THEN UNCHANGED <<store, nextId, recorded>>
    ELSE LET made == CreateBulkOperation(store, nextId, operationType, affectedItems,
                                         hasPayload)
         IN  /\ store' = made.store
             /\ nextId' = made.nextId
             /\ recorded' = recorded \cup {[batchId |-> made.batchId, size |-> made.size]}

\* createBulkHistoryEntry(...) as called by a run, with the log of returned batches
RecordBulk(operationType, affectedItems, hasPayload) ==
    LET made == CreateBulkOperation(store, nextId, operationType, affectedItems, hasPayload)
    IN  /\ store' = made.store
        /\ nextId' = made.nextId
        /\ recorded' = recorded \cup {[batchId |-> made.batchId, size |-> made.size]}

\* the code after the loop, up to `await fetchUpdatedProducts()`
CompleteRun(r) ==
    /\ processProgress' =
           Progress(Len(r.selectedVariants), Len(r.selectedVariants), r.successful, r.failed)
    /\ IF r.kind = "apply"
       THEN /\ IF ApplyAffectedItems(r.allResults) # <<>>
               THEN RecordBulk("bulk_discount", ApplyAffectedItems(r.allResults), TRUE)
               ELSE UNCHANGED <<store, nextId, recorded>>
            /\ message' = IF r.failed = 0 THEN "success"
                          ELSE IF r.successful > 0 THEN "info" ELSE "error"
            /\ results' = r.allResults
       ELSE /\ RecordBulk("bulk_discount", RollbackAffectedItems(r.selectedVariants), FALSE)
            /\ message' = "success"
            /\ results' = <<>>
    /\ run' = [r EXCEPT !.pc = "refresh"]
    /\ UNCHANGED <<selectedVariants, isApplying, isProcessing, requests, inFlight,
                   resetTimers>>

\* the finally block: setIsApplying(false) and the 2 s timer that resets the progress
Finally ==
    /\ isApplying' = FALSE
    /\ resetTimers' = resetTimers + 1
    /\ run' = RunIdle

\* JoinBatch without the pause between batches: the next batch is dispatched at once
JoinBatchNoDelay ==
    /\ run.pc = "await"
    /\ PromiseAllSettled(run.batchPromises)
    /\ SomeRejected(run.batchPromises) => resetTimers < MaxTimers
    /\ IF SomeRejected(run.batchPromises)
       THEN \* catch (error) { setMessage(...) } finally { ... }
            /\ message' = "error"
            /\ Finally
            /\ UNCHANGED <<store, nextId, recorded, selectedVariants, results,
                           isProcessing, processProgress, requests, inFlight>>
       ELSE LET n == Len(run.batchPromises)
                ok == CountSuccess(run.batchPromises)
                r == [run EXCEPT
                        !.allResults = IF run.kind = "apply"
                                       THEN run.allResults \o ResultsOf(run.batchPromises)
                                       ELSE run.allResults,
                        !.completed = run.completed + n,
                        !.successful = run.successful + ok,
                        !.failed = run.failed + (n - ok)]
            IN  IF run.batchIndex < Len(run.batches)
                THEN /\ run' = DispatchBatch(r, r.batchIndex + 1)
                     /\ requests' = requests \o r.batches[r.batchIndex + 1]
                     /\ inFlight' = inFlight \cup {r.batches[r.batchIndex + 1][i] :
                                          i \in 1 .. Len(r.batches[r.batchIndex + 1])}
                     /\ processProgress' = Progress(Len(r.selectedVariants), r.completed,
                                                    r.successful, r.failed)
                     /\ results' = IF r.kind = "apply" THEN r.allResults ELSE results
                     /\ UNCHANGED <<store, nextId, recorded, selectedVariants, message,
                                    isApplying, isProcessing, resetTimers>>
                ELSE CompleteRun(r)
    /\ UNCHANGED rbVars
    /\ UNCHANGED <<queried, calculated, storageFull, remote>>

\* `await Promise.all(batchPromises)` returns (or throws), up to the next await
JoinBatch ==
    /\ run.pc = "await"
    /\ PromiseAllSettled(run.batchPromises)
    /\ SomeRejected(run.batchPromises) => resetTimers < MaxTimers
    /\ IF SomeRejected(run.batchPromises)
       THEN \* catch (error) { setMessage(...) } finally { ... }
            /\ message' = "error"
            /\ Finally
            /\ UNCHANGED <<store, nextId, recorded, selectedVariants, results,
                           isProcessing, processProgress, requests, inFlight>>
       ELSE LET n == Len(run.batchPromises)
                ok == CountSuccess(run.batchPromises)
                r == [run EXCEPT
                        !.allResults = IF run.kind = "apply"
                                       THEN run.allResults \o ResultsOf(run.batchPromises)
                                       ELSE run.allResults,
                        !.completed = run.completed + n,
                        !.successful = run.successful + ok,
                        !.failed = run.failed + (n - ok)]
            IN  IF run.batchIndex < Len(run.batches)
                THEN \* await new Promise(resolve => setTimeout(resolve, 1100))
                     /\ run' = [r EXCEPT !.pc = "delay"]
                     /\ processProgress' = Progress(Len(r.selectedVariants), r.completed,
                                                    r.successful, r.failed)
                     /\ results' = IF r.kind = "apply" THEN r.allResults ELSE results
                     /\ UNCHANGED <<store, nextId, recorded, selectedVariants, message,
                                    isApplying, isProcessing, requests, inFlight,
                                    resetTimers>>
                ELSE CompleteRun(r)
    /\ UNCHANGED rbVars
    /\ UNCHANGED <<queried, calculated, storageFull, remote>>

\* the 1100 ms timer fires: the loop goes on with the next batch
DelayElapsed ==
    /\ run.pc = "delay"
    /\ run' = DispatchBatch(run, run.batchIndex + 1)
    /\ requests' = requests \o run.batches[run.batchIndex + 1]
    /\ inFlight' = inFlight \cup {run.batches[run.batchIndex + 1][i] :
                                      i \in 1 .. Len(run.batches[run.batchIndex + 1])}
    /\ UNCHANGED <<store, nextId, recorded, selectedVariants, results, message, isApplying,
                   isProcessing, processProgress, resetTimers, rbVars>>
    /\ UNCHANGED <<queried, calculated, storageFull, remote>>

\* fetchUpdatedProducts() returns (it catches its own errors): setSelectedVariants([]),
\* then the finally block
RefreshDone ==
    /\ run.pc = "refresh"
    /\ resetTimers < MaxTimers
    /\ selectedVariants' = <<>>
    /\ Finally
    /\ UNCHANGED <<store, nextId, recorded, results, message, isProcessing,
                   processProgress, requests, inFlight, rbVars>>
    /\ UNCHANGED <<queried, calculated, storageFull, remote>>

\* a 2 s timer of a finished run fires
ResetTimerFires ==
    /\ resetTimers > 0
    /\ resetTimers' = resetTimers - 1
    /\ isProcessing' = FALSE
    /\ processProgress' = Progress(0, 0, 0, 0)
    /\ UNCHANGED <<store, nextId, recorded, selectedVariants, results, message,
                   isApplying, run, requests, inFlight, rbVars>>
    /\ UNCHANGED <<queried, calculated, storageFull, remote>>

\* failedResults: the results without success, and their variant ids
FailedResults(rs) == SelectSeq(rs, LAMBDA r : ~r.success)

FailedVariantIds(rs) == [i \in 1 .. Len(FailedResults(rs)) |-> FailedResults(rs)[i].variantId]

\* retryFailedItems: "Retry Failed Items" is clicked; the button is rendered while
\* there are failed results and enabled while no run is going. The selection is set to the
\* failed variant ids and a zero-delay timer is armed with the applyDiscount of the
\* render of the click, which reads the selection of that render
RetryFailedItems ==
    /\ ~isApplying /\ ~isProcessing
    /\ run.pc = "idle"
    /\ nextId + Len(selectedVariants) + 1 <= MaxRunIds
    /\ Len(FailedVariantIds(results)) # 0
    /\ selectedVariants' = FailedVariantIds(results)
    /\ run' = [RunIdle EXCEPT !.pc = "retry", !.selectedVariants = selectedVariants]
    /\ UNCHANGED <<store, nextId, recorded, results, message, isApplying, isProcessing,
                   processProgress, requests, inFlight, resetTimers, rbVars>>
    /\ UNCHANGED <<queried, calculated, storageFull, remote>>

\* the zero-delay timer of retryFailedItems fires: the captured applyDiscount runs,
\* with the discount inputs of the click (here valid ones: a percentage strictly
\* between 0 and 100 and no expiry date)
RetryTimerFires ==
    /\ run.pc = "retry"
    /\ ApplyDiscount(run.selectedVariants, 10, "")
    /\ UNCHANGED <<store, nextId, recorded, rbVars>>
    /\ UNCHANGED <<queried, calculated, storageFull, remote>>

----------------------------------------------------------------------------
(* BulkPriceEditModal: calculateNewPrice *)

\* Prices are decimal strings with two decimals; a price is written as its number of
\* cents. The number calculateNewPrice computes with is a double: it is written as the
\* exact value in 1/10000 of the currency unit, with a flag telling that the double
\* lies below that exact value.
Prices == {1, 5, 100, 500, 1999, 2500, 10000}

\* rule.value: a percentage, or an amount in whole currency units
RuleValues == {0, 5, 16, 20, 50, 80, 150}

RuleTypes == {"percentage", "fixed", "absolute"}

RoundingRules == {"none", "nearest_99", "nearest_00", "nearest_95"}

PriceActions == {"increase", "decrease"}

PriceRule(type, value, roundingRule) ==
    [type |-> type, value |-> value, roundingRule |-> roundingRule]

Double(exact, below) == [exact |-> exact, below |-> below]

\* price * multiplier in IEEE 754 double arithmetic: the inputs of Prices and
\* RuleValues for which the double result lies below the exact product, where the
\* exact product is a value that the later steps test (a whole number, a half, a
\* half cent, the floor 0.01). E.g. 1 - 80 / 100 is 0.19999999999999996 and
\* 5 * 0.19999999999999996 is 0.9999999999999998.
ProductBelow(price, value, action) ==
    <<price, value, action>> \in
        {<<1, 50, "increase">>, <<5, 80, "decrease">>, <<500, 80, "decrease">>,
         <<1999, 50, "increase">>, <<1999, 50, "decrease">>, <<1999, 150, "increase">>,
         <<2500, 16, "increase">>, <<2500, 80, "decrease">>,
         <<10000, 16, "increase">>, <<10000, 80, "decrease">>}

\* Math.floor of a double
MathFloor(x) ==
    IF x.below /\ x.exact % 10000 = 0 THEN x.exact \div 10000 - 1 ELSE x.exact \div 10000

\* Math.round of a double: halves go up
MathRound(x) ==
    IF x.below /\ x.exact % 10000 = 5000
    THEN x.exact \div 10000
    ELSE (x.exact + 5000) \div 10000

\* Number.prototype.toFixed(2), as a number of cents: the nearest cent to the double,
\* the larger one if both are as near
ToFixed2(x) ==
    IF x.below /\ x.exact % 100 = 50 THEN x.exact \div 100 ELSE (x.exact + 50) \div 100

\* the price before the business rules
BasePrice(price, rule, action) ==
    CASE rule.type = "percentage" ->
             Double(price * (IF action = "increase" THEN 100 + rule.value
                                                    ELSE 100 - rule.value),
                    ProductBelow(price, rule.value, action))
      [] rule.type = "fixed" ->
             Double(IF action = "increase" THEN price * 100 + rule.value * 10000
                                           ELSE price * 100 - rule.value * 10000, FALSE)
      [] rule.type = "absolute" -> Double(rule.value * 10000, FALSE)

\* if (newPrice < 0.01) newPrice = 0.01
MinimumPrice(x) ==
    IF x.exact < 100 \/ (x.exact = 100 /\ x.below) THEN Double(100, FALSE) ELSE x

\* the rounding rules
RoundPrice(x, roundingRule) ==
    CASE roundingRule = "nearest_99" -> Double(MathFloor(x) * 10000 + 9900, FALSE)
      [] roundingRule = "nearest_00" -> Double(MathRound(x) * 10000, FALSE)
      [] roundingRule = "nearest_95" -> Double(MathFloor(x) * 10000 + 9500, FALSE)
      [] OTHER -> x

CalculateNewPrice(currentPrice, rule, action) ==
    ToFixed2(RoundPrice(MinimumPrice(BasePrice(currentPrice, rule, action)),
                        rule.roundingRule))

\* the value of `calculated` before any call
NoCalculation ==
    [currentPrice |-> 0, rule |-> PriceRule("", 0, ""), action |-> "", result |-> 0,
     calls |-> 0]

\* handleBulkUpdate computes the new price of a variant
CalculateNewPriceCall(currentPrice, rule, action) ==
    /\ calculated' = [currentPrice |-> currentPrice, rule |-> rule, action |-> action,
                      result |-> CalculateNewPrice(currentPrice, rule, action),
                      calls |-> 1]
    /\ UNCHANGED <<store, nextId, recorded, uiVars, rbVars, queried, storageFull, remote>>

----------------------------------------------------------------------------
(* The remote store and the route handlers *)

\* the variant ids of the remote store
RemoteVariants == 1 .. batchSize

\* the prices a variant starts with, in cents; a compare_at_price of 0 is null
\* (variant.compare_at_price ? parseFloat(...) : null, and 0 is falsy where it is used)
RemotePrices == {0, 1, 2500}

\* the discount percentages of a request (0 and 100 fail the validation)
DiscountPercentages == {0, 5, 80, 100}

\* a variant's values in the remote store
VariantValues(price, compare_at_price) ==
    [price |-> price, compare_at_price |-> compare_at_price]

\* a price_history metafield: the values stored before a discount was applied
NoHistory == [present |-> FALSE, price |-> 0, compare_at_price |-> 0]

PriceHistory(variant) ==
    [present |-> TRUE, price |-> variant.price,
     compare_at_price |-> variant.compare_at_price]

\* one element of the results array of the apply-discount response
RouteDiscountResult(variantId, success, error, newPrice, compareAtPrice) ==
    [variantId |-> variantId, success |-> success, error |-> error,
     newPrice |-> newPrice, compareAtPrice |-> compareAtPrice]

\* a PUT variants/<id>.json the handler issued, and whether the store answered 200
VariantUpdate(variantId, price, compare_at_price, ok) ==
    [variantId |-> variantId, price |-> price, compare_at_price |-> compare_at_price,
     ok |-> ok]

\* the record of the last handler call
Response(handler, variantIds, status, res, sent, successful, failed) ==
    [handler |-> handler, variantIds |-> variantIds, status |-> status,
     results |-> res, sent |-> sent, successful |-> successful, failed |-> failed,
     total |-> 0]

NoResponse == Response("none", <<>>, 0, <<>>, <<>>, 0, 0)

\* the store before any request: every variant costs 25.00 and has no compare_at_price
RemoteInit ==
    [variants |-> [v \in RemoteVariants |-> VariantValues(2500, 0)],
     history  |-> [v \in RemoteVariants |-> NoHistory],
     applied  |-> [v \in RemoteVariants |-> NoHistory],
     response |-> NoResponse]

\* the price the discount is taken from is one of Prices, for which the double
\* arithmetic is tabulated
Tabulated(variant) ==
    IF variant.compare_at_price # 0 /\ variant.compare_at_price > variant.price
    THEN variant.compare_at_price \in Prices \cup {0}
    ELSE variant.price \in Prices \cup {0}

\* what the remote store can answer while one variant is processed
ApplyItemOutcomes == {"fetch_failed", "thrown", "metafield_failed", "update_failed", "ok"}

\* newPrice >= newCompareAtPrice, on the doubles
AtLeast(x, y) == x.exact > y.exact \/ (x.exact = y.exact /\ (y.below \/ ~x.below))

\* the locals of the loop of a handler: the store, the results and the updates sent
LoopState(rem, res, sent) == [remote |-> rem, results |-> res, sent |-> sent]

\* one iteration of the loop of the apply-discount handler
ApplyItem(st, variantId, discountPercentage, outcome) ==
    LET variant == st.remote.variants[variantId]
        currentPrice == variant.price
        currentCompareAtPrice == variant.compare_at_price
        saved == IF outcome = "metafield_failed" THEN st.remote.history
                 ELSE [st.remote.history EXCEPT ![variantId] = PriceHistory(variant)]
        type2 == currentCompareAtPrice # 0 /\ currentCompareAtPrice > currentPrice
        base == IF type2 THEN currentCompareAtPrice ELSE currentPrice
        newPrice == Double(base * (100 - discountPercentage),
                           ProductBelow(base, discountPercentage, "decrease"))
        newCompareAtPrice == Double(base * 100, FALSE)
        ok == outcome # "update_failed"
        update == VariantUpdate(variantId, ToFixed2(newPrice), ToFixed2(newCompareAtPrice), ok)
        failure(rem, error, sent) ==
            LoopState(rem,
                      Append(st.results,
                             RouteDiscountResult(variantId, FALSE, error, ToFixed2(newPrice),
                                                 ToFixed2(newCompareAtPrice))),
                      sent)
    IN  CASE outcome = "fetch_failed" ->
               LoopState(st.remote,
                         Append(st.results,
                                RouteDiscountResult(variantId, FALSE,
                                                    "Failed to fetch variant data", 0, 0)),
                         st.sent)
          [] outcome = "thrown" ->
               LoopState(st.remote,
                         Append(st.results,
                                RouteDiscountResult(variantId, FALSE, "Unknown error", 0, 0)),
                         st.sent)
          [] OTHER ->
               IF AtLeast(newPrice, newCompareAtPrice)
               THEN failure([st.remote EXCEPT !.history = saved],
                            "New price would be equal or greater than compare-at price",
                            st.sent)
               ELSE IF ok
               THEN LoopState([st.remote EXCEPT
                                  !.history = saved,
                                  !.variants[variantId] =
                                      VariantValues(update.price, update.compare_at_price),
                                  !.applied[variantId] = PriceHistory(variant)],
                              Append(st.results,
                                     RouteDiscountResult(variantId, TRUE, "", update.price,
                                                         update.compare_at_price)),
                              Append(st.sent, update))
               ELSE failure([st.remote EXCEPT !.history = saved], "Shopify API error",
                            Append(st.sent, update))

\* a loop that leaves out the result of a variant that could not be fetched
RECURSIVE ApplyLoopSkipping(_, _, _, _, _)
ApplyLoopSkipping(st, variantIds, discountPercentage, outcomes, i) ==
    IF i > Len(variantIds) THEN st
    ELSE ApplyLoopSkipping(IF outcomes[i] = "fetch_failed" THEN st
                           ELSE ApplyItem(st, variantIds[i], discountPercentage,
                                          outcomes[i]),
                           variantIds, discountPercentage, outcomes, i + 1)

\* the loop over variantIds, from position i
RECURSIVE ApplyLoop(_, _, _, _, _)
ApplyLoop(st, variantIds, discountPercentage, outcomes, i) ==
    IF i > Len(variantIds) THEN st
    ELSE ApplyLoop(ApplyItem(st, variantIds[i], discountPercentage, outcomes[i]),
                   variantIds, discountPercentage, outcomes, i + 1)

\* POST /api/apply-discount-enhanced. An expiry date changes nothing that is observed
\* here: scheduleDiscountReversion catches its own errors.
ApplyDiscountPost(variantIds, discountPercentage, outcomes) ==
    /\ Len(outcomes) = Len(variantIds)
    /\ \A i \in 1 .. Len(variantIds) : Tabulated(remote.variants[variantIds[i]])
    /\ IF Len(variantIds) = 0 \/ discountPercentage <= 0 \/ discountPercentage >= 100
       THEN remote' = [remote EXCEPT
                          !.response = Response("apply", variantIds, 400, <<>>, <<>>, 0, 0)]
       ELSE LET st == ApplyLoop(LoopState(remote, <<>>, <<>>), variantIds,
                                discountPercentage, outcomes, 1)
            IN  remote' = [st.remote EXCEPT
                              !.response = Response("apply", variantIds, 200, st.results,
                                                    st.sent, 0, 0)]
    /\ UNCHANGED <<store, nextId, recorded, uiVars, rbVars, queried, calculated, storageFull>>

\* what the remote store can answer while one variant is rolled back
RollbackItemOutcomes == {"fetch_failed", "thrown", "update_failed", "ok"}

\* set price to compare_at_price and remove compare_at_price; st.results lists the
\* variants counted in successCount
RestoreFromCompareAtPrice(st, variantId, outcome) ==
    LET currentCompareAtPrice == st.remote.variants[variantId].compare_at_price
        ok == outcome = "ok"
        update == VariantUpdate(variantId,
                                ToFixed2(Double(currentCompareAtPrice * 100, FALSE)), 0, ok)
    IN  IF currentCompareAtPrice = 0 THEN st
        ELSE IF ok
        THEN LoopState([st.remote EXCEPT
                           !.variants[variantId] = VariantValues(update.price, 0)],
                       Append(st.results, variantId), Append(st.sent, update))
        ELSE LoopState(st.remote, st.results, Append(st.sent, update))

\* one iteration of the loop of the rollback-discount handler
RollbackItem(st, variantId, outcome) ==
    IF outcome \in {"fetch_failed", "thrown"} THEN st
    ELSE RestoreFromCompareAtPrice(st, variantId, outcome)

\* one iteration of the loop of the handler that restores from the price history; the
\* history is sorted most recent first and only its first element is read
RollbackEnhancedItem(st, variantId, outcome) ==
    LET latestHistory == st.remote.history[variantId]
        ok == outcome = "ok"
        update == VariantUpdate(variantId, latestHistory.price,
                                latestHistory.compare_at_price, ok)
    IN  IF outcome \in {"fetch_failed", "thrown"} THEN st
        ELSE IF ~latestHistory.present
        THEN RestoreFromCompareAtPrice(st, variantId, outcome)
        ELSE IF ok
        THEN LoopState([st.remote EXCEPT
                           !.variants[variantId] =
                               VariantValues(update.price, update.compare_at_price)],
                       Append(st.results, variantId), Append(st.sent, update))
        ELSE LoopState(st.remote, st.results, Append(st.sent, update))

RECURSIVE RollbackLoop(_, _, _, _, _)
RollbackLoop(st, enhanced, variantIds, outcomes, i) ==
    IF i > Len(variantIds) THEN st
    ELSE RollbackLoop(IF enhanced THEN RollbackEnhancedItem(st, variantIds[i], outcomes[i])
                                  ELSE RollbackItem(st, variantIds[i], outcomes[i]),
                      enhanced, variantIds, outcomes, i + 1)

\* POST /api/rollback-discount (enhanced = FALSE) and the handler that restores from the
\* price history (enhanced = TRUE)
RollbackDiscountPost(enhanced, variantIds, outcomes) ==
    LET handler == IF enhanced THEN "rollback_enhanced" ELSE "rollback"
    IN
    /\ Len(outcomes) = Len(variantIds)
    /\ IF Len(variantIds) = 0
       THEN remote' = [remote EXCEPT
                          !.response = Response(handler, variantIds, 400, <<>>, <<>>, 0, 0)]
       ELSE LET st == RollbackLoop(LoopState(remote, <<>>, <<>>), enhanced, variantIds,
                                   outcomes, 1)
            IN  remote' = [st.remote EXCEPT
                              !.response = Response(handler, variantIds, 200, st.results,
                                                    st.sent, Len(st.results), 0)]
    /\ UNCHANGED <<store, nextId, recorded, uiVars, rbVars, queried, calculated, storageFull>>

\* the values a variant has before the first request
SetVariant(variantId, price, compare_at_price) ==
    /\ remote.response.handler = "none"
    /\ remote' = [remote EXCEPT
                     !.variants[variantId] = VariantValues(price, compare_at_price)]
    /\ UNCHANGED <<store, nextId, recorded, uiVars, rbVars, queried, calculated, storageFull>>

\* rule.applyTo
ApplyTos == {"price", "compareAtPrice", "both"}

\* getSelectedVariantsData: one element of the variants array the modal submits
SelectedVariantData(variantId, rule, action, applyTo) ==
    LET variant == remote.variants[variantId]
    IN  [variantId |-> variantId,
         currentPrice |-> variant.price,
         currentCompareAtPrice |-> variant.compare_at_price,
         newPrice |-> IF applyTo \in {"price", "both"}
                      THEN CalculateNewPrice(variant.price, rule, action)
                      ELSE variant.price,
         newCompareAtPrice |-> IF applyTo \in {"compareAtPrice", "both"}
                                  /\ variant.compare_at_price # 0
                               THEN CalculateNewPrice(variant.compare_at_price, rule, action)
                               ELSE variant.compare_at_price]

\* what the remote store can answer to one productVariantUpdate mutation
BulkItemOutcomes == {"failed", "thrown", "ok"}

\* the locals of the loop of the bulk-price-update handler
BulkState(rem, res, errors, logs, sent) ==
    [remote |-> rem, results |-> res, errors |-> errors, logs |-> logs, sent |-> sent]

\* one iteration of the loop of the bulk-price-update handler; the prices are strings,
\* so a price that is set is truthy
BulkPriceUpdateItem(st, variant, applyTo, outcome) ==
    LET hasPrice == applyTo \in {"price", "both"} /\ variant.newPrice # variant.currentPrice
        hasCompareAtPrice ==
            /\ applyTo \in {"compareAtPrice", "both"}
            /\ variant.newCompareAtPrice # 0
            /\ variant.newCompareAtPrice # variant.currentCompareAtPrice
        current == st.remote.variants[variant.variantId]
        updated == VariantValues(IF hasPrice THEN variant.newPrice ELSE current.price,
                                 IF hasCompareAtPrice THEN variant.newCompareAtPrice
                                 ELSE current.compare_at_price)
        update == VariantUpdate(variant.variantId, updated.price, updated.compare_at_price,
                                outcome = "ok")
    IN  IF ~hasPrice /\ ~hasCompareAtPrice THEN st
        ELSE CASE outcome = "ok" ->
                    BulkState([st.remote EXCEPT !.variants[variant.variantId] = updated],
                              Append(st.results, variant.variantId), st.errors,
                              st.logs + 1, Append(st.sent, update))
               [] outcome = "failed" ->
                    BulkState(st.remote, st.results, Append(st.errors, variant.variantId),
                              st.logs + 1, Append(st.sent, update))
               [] outcome = "thrown" ->
                    BulkState(st.remote, st.results, Append(st.errors, variant.variantId),
                              st.logs + 1, st.sent)

RECURSIVE BulkPriceUpdateLoop(_, _, _, _, _)
BulkPriceUpdateLoop(st, variants, applyTo, outcomes, i) ==
    IF i > Len(variants) THEN st
    ELSE BulkPriceUpdateLoop(BulkPriceUpdateItem(st, variants[i], applyTo, outcomes[i]),
                             variants, applyTo, outcomes, i + 1)

\* POST /api/bulk-price-update with the variants the modal has selected. saveBulkUploadLogs
\* writes localStorage, which the handler's runtime may not have: logsSaved is FALSE when
\* the write throws, and the outer catch answers with zero totals.
BulkPriceUpdatePost(variantIds, rule, action, applyTo, outcomes, logsSaved) ==
    LET variants == [i \in 1 .. Len(variantIds) |->
                        SelectedVariantData(variantIds[i], rule, action, applyTo)]
        st == BulkPriceUpdateLoop(BulkState(remote, <<>>, <<>>, 0, <<>>), variants, applyTo,
                                  outcomes, 1)
    IN
    /\ Len(outcomes) = Len(variantIds)
    /\ \A i \in 1 .. Len(variantIds) :
           /\ remote.variants[variantIds[i]].price \in Prices \cup {0}
           /\ remote.variants[variantIds[i]].compare_at_price \in Prices \cup {0}
    /\ IF st.logs > 0 /\ ~logsSaved
       THEN remote' = [st.remote EXCEPT
                          !.response = [Response("bulk_price_update", variantIds, 500, <<>>,
                                                 st.sent, 0, 0) EXCEPT !.total = 0]]
       ELSE remote' = [st.remote EXCEPT
                          !.response = [Response("bulk_price_update", variantIds, 200,
                                                 st.results, st.sent, Len(st.results),
                                                 Len(st.errors))
                                            EXCEPT !.total = Len(variants)]]
    /\ UNCHANGED <<store, nextId, recorded, uiVars, rbVars, queried, calculated, storageFull>>

----------------------------------------------------------------------------
(* Specification *)

Init ==
    /\ store = <<>>
    /\ nextId = 1
    /\ recorded = {}
    /\ selectedVariants = <<>>
    /\ results = <<>>
    /\ message = "none"
    /\ isApplying = FALSE
    /\ isProcessing = FALSE
    /\ processProgress = Progress(0, 0, 0, 0)
    /\ run = RunIdle
    /\ requests = <<>>
    /\ inFlight = {}
    /\ resetTimers = 0
    /\ rb = RbIdle
    /\ rbRequests = <<>>
    /\ rbResult = NoResult
    /\ queried = NoQuery
    /\ calculated = NoCalculation
    /\ storageFull = FALSE
    /\ remote = RemoteInit

\* createBulkHistoryEntry called on its own: n items (variants 1 .. n), with or without
\* a rollbackPayload
CreateBulkHistoryEntry(n, hasPayload) ==
    /\ nextId + n + 1 <= MaxIds
    /\ RecordBulk("bulk_discount",
                  ApplyAffectedItems([i \in 1 .. n |-> DiscountResult(i, 10)]), hasPayload)
    /\ UNCHANGED <<uiVars, rbVars>>
    /\ UNCHANGED <<queried, calculated, storageFull, remote>>

\* The bulk discount screen: selection, applyDiscount, rollbackDiscounts
Next ==
    \/ \E v \in Variants, checked \in BOOLEAN : HandleVariantSelect(v, checked)
    \/ \E checked \in BOOLEAN : HandleSelectAll(checked)
    \/ \E p \in Percentages, d \in ExpiryDates : ClickApplyDiscount(p, d)
    \/ ClickRollbackDiscounts
    \/ \E i \in 1 .. batchSize, o \in ApplyOutcomes : SettleRequest(i, o)
    \/ JoinBatch
    \/ DelayElapsed
    \/ RefreshDone
    \/ ResetTimerFires

Spec == Init /\ [][Next]_vars

\* The bulk discount screen with its "Retry Failed Items" button: discounts are
\* applied to selections of the first batchSize + 1 variants (one or two batches),
\* and failed items are retried
NextRetry ==
    \/ \E v \in 1 .. batchSize + 1, checked \in BOOLEAN : HandleVariantSelect(v, checked)
    \/ \E p \in Percentages, d \in ExpiryDates : ClickApplyDiscount(p, d)
    \/ \E i \in 1 .. batchSize, o \in ApplyOutcomes : SettleRequest(i, o)
    \/ JoinBatch
    \/ DelayElapsed
    \/ RefreshDone
    \/ ResetTimerFires
    \/ RetryFailedItems
    \/ RetryTimerFires

SpecRetry == Init /\ [][NextRetry]_vars

\* The history manager and the history modal: entries are created, rolled back, cleared
NextHistory ==
    \/ CreateProductHistoryEntry(1)
    \/ \E n \in Variants, hasPayload \in BOOLEAN : CreateBulkHistoryEntry(n, hasPayload)
    \/ \E id \in Ids(store) \cup {HistId(0)} : RollbackOperation(id)
    \/ \E o \in RollbackOutcomes : RollbackResponse(o)
    \/ ClearHistory

SpecHistory == Init /\ [][NextHistory]_vars

\* The history manager with importHistory, which no screen calls but the manager exports
NextImport ==
    \/ NextHistory
    \/ \E doc \in ImportDocuments : ImportHistory(doc)

SpecImport == Init /\ [][NextImport]_vars

\* Queries on a history that product edits, bulk operations (of one or two items)
\* and rollbacks have written: the writes come first, then the queries, with no
\* rollback in progress
NextQuery ==
    \/ queried.calls = 0 /\ CreateProductHistoryEntry(1)
    \/ queried.calls = 0 /\ \E n \in 1 .. batchSize : CreateBulkHistoryEntry(n, TRUE)
    \/ queried.calls = 0 /\ \E id \in Ids(store) : RollbackOperation(id)
    \/ queried.calls = 0 /\ RollbackResponse("ok")
    \/ rb.pc = "idle" /\ \E filter \in Filters(store) : GetFilteredEntriesCall(filter)

SpecQuery == Init /\ [][NextQuery]_vars

\* Rollbacks on a history that holds entries of every kind: product edits, image
\* uploads, bulk operations, and imported entries that no rollback is implemented for
NextRollback ==
    \/ store = <<>> /\ ImportHistory(ImportedFailures)
    \/ CreateProductHistoryEntry(1)
    \/ CreateImageHistoryEntry(1)
    \/ \E n \in 1 .. batchSize, hasPayload \in BOOLEAN : CreateBulkHistoryEntry(n, hasPayload)
    \/ \E id \in Ids(store) \cup {HistId(0)} : RollbackOperation(id)
    \/ \E o \in RollbackOutcomes : RollbackResponse(o)

SpecRollback == Init /\ [][NextRollback]_vars

\* History writes while localStorage may be at its quota: product edits, and
\* discount runs over selections of the first batchSize variants (one batch)
NextStorage ==
    \/ \E full \in BOOLEAN : SetStorageFull(full)
    \/ CreateProductHistoryEntry(1)
    \/ \E v \in 1 .. batchSize, checked \in BOOLEAN : HandleVariantSelect(v, checked)
    \/ ClickApplyDiscount(10, "")
    \/ \E i \in 1 .. batchSize, o \in ApplyOutcomes : SettleRequest(i, o)
    \/ JoinBatch
    \/ RefreshDone
    \/ ResetTimerFires

SpecStorage == Init /\ [][NextStorage]_vars

\* the lists of variant ids of a request
VariantIdLists == UNION {[1 .. n -> RemoteVariants] : n \in 0 .. batchSize}

\* the rules of a bulk price update
BulkRules == {PriceRule("percentage", 50, "none"), PriceRule("absolute", 5, "none")}

\* requests for one variant, as the discount screen sends them (variantIds: [variantId]),
\* in any order and number, on a variant with any starting values
NextRemote ==
    \/ \E price \in RemotePrices, compare_at_price \in RemotePrices :
           SetVariant(1, price, compare_at_price)
    \/ \E d \in DiscountPercentages, o \in ApplyItemOutcomes :
           ApplyDiscountPost(<<1>>, d, <<o>>)
    \/ \E enhanced \in BOOLEAN, o \in RollbackItemOutcomes :
           RollbackDiscountPost(enhanced, <<1>>, <<o>>)

SpecRemote == Init /\ [][NextRemote]_vars

\* no handler has been called
NoRequestYet == remote.response.handler = "none"

\* one request with any list of variant ids to any handler, on variants with any starting
\* values
NextRequest ==
    \/ \E v \in RemoteVariants, price \in RemotePrices, compare_at_price \in RemotePrices :
           SetVariant(v, price, compare_at_price)
    \/ /\ NoRequestYet
       /\ \E variantIds \in VariantIdLists, d \in DiscountPercentages :
              \E outcomes \in [1 .. Len(variantIds) -> ApplyItemOutcomes] :
                  ApplyDiscountPost(variantIds, d, outcomes)
    \/ /\ NoRequestYet
       /\ \E enhanced \in BOOLEAN, variantIds \in VariantIdLists :
              \E outcomes \in [1 .. Len(variantIds) -> RollbackItemOutcomes] :
                  RollbackDiscountPost(enhanced, variantIds, outcomes)
    \/ /\ NoRequestYet
       /\ \E variantIds \in VariantIdLists, rule \in BulkRules, action \in PriceActions,
             applyTo \in ApplyTos, logsSaved \in BOOLEAN :
              \E outcomes \in [1 .. Len(variantIds) -> BulkItemOutcomes] :
                  BulkPriceUpdatePost(variantIds, rule, action, applyTo, outcomes, logsSaved)

SpecRequest == Init /\ [][NextRequest]_vars

\* The price rule of the bulk price edit modal applied to prices
NextPrice ==
    \E currentPrice \in Prices, type \in RuleTypes, value \in RuleValues,
       roundingRule \in RoundingRules, action \in PriceActions :
        CalculateNewPriceCall(currentPrice, PriceRule(type, value, roundingRule), action)

SpecPrice == Init /\ [][NextPrice]_vars

----------------------------------------------------------------------------
(* Properties of a batch run *)

Range(seq) == {seq[i] : i \in 1 .. Len(seq)}

Ceil(n, g) == (n + g - 1) \div g

RECURSIVE Flatten(_)
Flatten(seqs) == IF seqs = <<>> THEN <<>> ELSE Head(seqs) \o Flatten(Tail(seqs))

IsPrefix(a, b) == Len(a) <= Len(b) /\ a = SubSeq(b, 1, Len(a))

\* C1: in a run, once a request for an item of group k+1 has been issued, every
\* request of group k has been issued and has its answer: no item of group k is in
\* flight, in whatever order the answers of group k arrived.
Thm_C1_GroupJoin ==
    \A k \in 1 .. Len(run.batches) - 1 :
        (Range(run.batches[k + 1]) \cap Range(requests) # {})
            => /\ Range(run.batches[k]) \subseteq Range(requests)
               /\ Range(run.batches[k]) \cap inFlight = {}

\* the second group is in flight after a first group in which a request failed
Wit_C1_GroupJoin ==
    /\ run.pc = "await" /\ run.batchIndex = 2
    /\ Range(run.batches[2]) \subseteq inFlight
    /\ run.failed = 1 /\ run.successful = 1

\* C2: a run over N selected items forms ceil(N / batchSize) groups that partition the
\* selection in order, each of 1 .. batchSize items; requests are issued in selection
\* order, one per item, all of them issued when the run completes; never more than
\* batchSize requests are in flight.
Thm_C2_GroupsPartition ==
    /\ Cardinality(inFlight) <= batchSize
    /\ run.pc # "idle" =>
        /\ Len(run.batches) = Ceil(Len(run.selectedVariants), batchSize)
        /\ Flatten(run.batches) = run.selectedVariants
        /\ \A k \in 1 .. Len(run.batches) : Len(run.batches[k]) \in 1 .. batchSize
        /\ IsPrefix(requests, run.selectedVariants)
        /\ Cardinality(Range(requests)) = Len(requests)
        /\ run.pc = "refresh" => requests = run.selectedVariants

\* a run over three items has completed: two groups, of two items and of one
Wit_C2_GroupsPartition ==
    /\ run.pc = "refresh"
    /\ Len(run.selectedVariants) = 3
    /\ Len(run.batches) = 2
    /\ Len(requests) = 3

\* C3: a run is never aborted by an item failure: it leaves Promise.all only towards
\* the delay or the completion code, and at completion a request has been issued for
\* every selected item and the tally shows completed = total = successful + failed.
Thm_C3_FailureIsolated ==
    [][(run.pc = "await" /\ run'.pc # "await") =>
          /\ run'.pc \in {"delay", "refresh"}
          /\ run'.pc = "refresh" =>
                /\ requests' = run.selectedVariants
                /\ processProgress'.total = Len(run.selectedVariants)
                /\ processProgress'.completed = processProgress'.total
                /\ processProgress'.successful + processProgress'.failed
                       = processProgress'.total
                /\ run'.completed = processProgress'.total]_vars

\* a run of two groups has completed although at least two of its requests failed
Wit_C3_FailureIsolated ==
    /\ run.pc = "refresh"
    /\ Len(run.batches) = 2
    /\ run.failed >= 2
    /\ run.successful >= 1
    /\ processProgress.completed = Len(run.selectedVariants)

\* the step in which the loop of a run ends and its history is recorded
RunCompletes == run.pc = "await" /\ run'.pc = "refresh"

\* the child entries a step added to the store
NewChildren ==
    {e \in Entries(store') : e.id \notin Ids(store) /\ e.action = "individual_item_in_bulk"}

\* the variants whose request succeeded in the run that completes (applyDiscount)
SucceededVariants ==
    {run'.allResults[i].variantId :
        i \in {j \in 1 .. Len(run'.allResults) : run'.allResults[j].success}}

Thm_C9_SummaryAddsUp ==
    \A e \in Entries(store) :
        e.action = "bulk_operation" =>
            /\ e.bulkOperationSummary.present
            /\ e.bulkOperationSummary.successfulItems + e.bulkOperationSummary.failedItems
                   = e.bulkOperationSummary.totalItems

\* a rollbackDiscounts run in which a request failed has recorded its bulk operation
Wit_C9_SummaryAddsUp ==
    /\ run.pc = "refresh" /\ run.kind = "rollback"
    /\ run.failed > 0
    /\ \E e \in Entries(store) :
           /\ e.action = "bulk_operation"
           /\ e.bulkOperationSummary.totalItems = Len(run.selectedVariants)

----------------------------------------------------------------------------
(* Properties of the history store and of rollbackOperation *)

BatchFilter(batchId) == [NoFilter EXCEPT !.batchId = batchId]

\* C4 as stated: for every batch of N items createBulkOperation recorded, the query by
\* its batch id returns exactly 1 bulk_operation entry and exactly N
\* individual_item_in_bulk entries, in every later state.
Cex_C4_BatchQuery ==
    \A b \in recorded :
        LET q == GetFilteredEntries(store, BatchFilter(b.batchId))
        IN  /\ GetBatchHistory(store, b.batchId) = q
            /\ Count(q, "bulk_operation") = 1
            /\ Count(q, "individual_item_in_bulk") = b.size

\* C4 amended: the query by the batch id (getFilteredEntries or getBatchHistory) returns
\* at most 1 bulk_operation entry and at most N individual_item_in_bulk entries, and
\* exactly 1 and exactly N as long as the main entry of the batch is still stored: the
\* main entry is the oldest entry of its batch and the first the capacity trim evicts.
Thm_C4_BatchQueryUntilEvicted ==
    \A b \in recorded :
        LET q == GetFilteredEntries(store, BatchFilter(b.batchId))
        IN  /\ GetBatchHistory(store, b.batchId) = q
            /\ Count(q, "bulk_operation") <= 1
            /\ Count(q, "individual_item_in_bulk") <= b.size
            /\ Count(q, "bulk_operation") = 1 => Count(q, "individual_item_in_bulk") = b.size

\* a batch of two items is stored whole, with the rollback entry of one of its
\* children appended after it
Wit_C4_BatchQueryUntilEvicted ==
    \E b \in recorded :
        LET q == GetBatchHistory(store, b.batchId)
        IN  /\ b.size = 2
            /\ Count(q, "bulk_operation") = 1
            /\ Count(q, "individual_item_in_bulk") = 2
            /\ Count(q, "rollback") = 1

\* the entries a step added to the store
NewEntries == {e \in Entries(store') : e.id \notin Ids(store)}

\* C5: when rollbackOperation(E.id) of an item-level entry E (rollbackType api_call,
\* canRollback = true) returns success, the step adds exactly one entry R, at the front
\* of the store: action = rollback, operationType that of E, newValues = E.oldValues,
\* oldValues = E.newValues, rollbackData.canRollback = false.
Thm_C5_RollbackEntry ==
    [][(rb.pc = "api" /\ rb'.pc = "idle" /\ rbResult'.success) =>
          /\ rb.entry.rollbackData.canRollback
          /\ rbResult'.entryId = rb.entry.id
          /\ Cardinality(NewEntries) = 1
          /\ \A R \in NewEntries :
                /\ R = store'[1]
                /\ R.action = "rollback"
                /\ R.operationType = rb.entry.operationType
                /\ R.newValues = rb.entry.oldValues
                /\ R.oldValues = rb.entry.newValues
                /\ R.rollbackData.present /\ ~R.rollbackData.canRollback]_vars

\* an item-level entry with oldValues # newValues has been rolled back: its rollback
\* entry is the newest entry
Wit_C5_RollbackEntry ==
    /\ rb.pc = "idle" /\ rbResult.success
    /\ rbResult.affectedEntries = <<rbResult.entryId>>
    /\ store # <<>>
    /\ store[1].action = "rollback"
    /\ store[1].originalEntryId = rbResult.entryId
    /\ store[1].newValues.present
    /\ store[1].newValues # store[1].oldValues

\* a step in which a rollbackOperation call returns; rbResult'.entryId is its argument
RollbackReturns ==
    /\ rb'.pc = "idle"
    /\ \/ \E id \in Ids(store) \cup {HistId(0)} : RollbackOperation(id)
       \/ \E o \in RollbackOutcomes : RollbackResponse(o)

\* C6 as stated: when rollbackOperation(E.id) returns, E is still in the store with its
\* fields unchanged, whatever the store held.
Cex_C6_OriginalKept ==
    [][RollbackReturns =>
          \A e \in Entries(store) : e.id = rbResult'.entryId => e \in Entries(store')]_vars

\* C6 amended: rollbackOperation never changes a field of a stored entry, and E is
\* still stored when it returns, except in one case: the rollback succeeded on a store
\* at capacity whose oldest entry is E, and saving the rollback entry evicted E.
Thm_C6_OriginalKeptUnlessEvicted ==
    [][RollbackReturns =>
          /\ \A e \in Entries(store') : e.id \in Ids(store) => e \in Entries(store)
          /\ \A e \in Entries(store) :
                (e.id = rbResult'.entryId /\ e \notin Entries(store'))
                    => /\ rbResult'.success
                       /\ Len(store) = MAX_ENTRIES
                       /\ store[MAX_ENTRIES] = e]_vars

\* an entry has been rolled back on a store at capacity and is still stored, unchanged
\* and still marked canRollback
Wit_C6_OriginalKeptUnlessEvicted ==
    /\ rb.pc = "idle" /\ rbResult.success
    /\ Len(store) = MAX_ENTRIES
    /\ store[1].action = "rollback"
    /\ store[1].originalEntryId = rbResult.entryId
    /\ \E e \in Entries(store) : e.id = rbResult.entryId /\ e.rollbackData.canRollback

\* the entry is missing, or has no rollbackData, or has canRollback = false
Ineligible(st, entryId) ==
    \A e \in Entries(st) :
        e.id = entryId => (~e.rollbackData.present \/ ~e.rollbackData.canRollback)

\* C7: rollbackOperation(id) on a missing or ineligible entry returns success = false
\* with no affectedEntries, issues no request and leaves the store unchanged; and every
\* request rollbackOperation issues, also for the children of a batch rollback, is for
\* an entry with canRollback = true.
Cex_C7_IneligibleNeverCalled ==
    [][/\ \A id \in Ids(store) \cup {HistId(0)} :
              (RollbackOperation(id) /\ Ineligible(store, id))
                  => /\ rbResult'.entryId = id
                     /\ ~rbResult'.success
                     /\ rbResult'.affectedEntries = <<>>
                     /\ rbRequests' = <<>>
                     /\ store' = store
                     /\ rb' = rb
       /\ \A i \in 1 .. Len(rbRequests') :
              /\ rbRequests'[i].rollbackData.present
              /\ rbRequests'[i].rollbackData.canRollback]_vars

\* C10 as stated: every child entry carries batchId and a parentBatchId that is the id
\* of the main entry of its batch; the main entry carries batchId and no parentBatchId.
Cex_C10_ParentIsMainEntryId ==
    \A e \in Entries(store) :
        /\ e.action = "individual_item_in_bulk" =>
              /\ e.batchId # Undefined
              /\ \A a \in Entries(store) :
                     (a.action = "bulk_operation" /\ a.batchId = e.batchId)
                         => e.parentBatchId = a.id
        /\ e.action = "bulk_operation" =>
              e.batchId # Undefined /\ e.parentBatchId = Undefined

\* C10 amended: every child entry carries the batch id twice, as batchId and as
\* parentBatchId; parentBatchId is the batchId of the main entry of the batch, not the
\* main entry's own id.  The main entry carries batchId and no parentBatchId.
Thm_C10_ParentIsBatchId ==
    \A e \in Entries(store) :
        /\ e.action = "individual_item_in_bulk" =>
              /\ e.batchId \in {b.batchId : b \in recorded}
              /\ e.parentBatchId = e.batchId
              /\ \A a \in Entries(store) :
                     (a.action = "bulk_operation" /\ a.batchId = e.batchId)
                         => e.parentBatchId = a.batchId /\ e.parentBatchId # a.id
        /\ e.action = "bulk_operation" =>
              e.batchId # Undefined /\ e.parentBatchId = Undefined

\* the store holds the main entry of a batch and one of its children
Wit_C10_ParentIsBatchId ==
    \E a, e \in Entries(store) :
        /\ a.action = "bulk_operation"
        /\ e.action = "individual_item_in_bulk"
        /\ e.parentBatchId = a.batchId

\* C11: every stored child entry (action = individual_item_in_bulk) has the aggregate
\* entry its parentBatchId refers to in the store as well.  parentBatchId holds a batch
\* id, so the aggregate referred to is the bulk_operation entry with that batchId (an
\* aggregate whose own id were the parentBatchId would count too).
Cex_C11_ParentStored ==
    \A e \in Entries(store) :
        e.action = "individual_item_in_bulk" =>
            \E a \in Entries(store) :
                /\ a.action = "bulk_operation"
                /\ (a.batchId = e.parentBatchId \/ a.id = e.parentBatchId)

\* C12: the persisted history never holds more than MAX_ENTRIES entries, in every state
\* reached by createEntry, createBulkOperation, rollbackOperation, importHistory and
\* clearHistory.
Cex_C12_CapacityBound == Len(store) <= MAX_ENTRIES

\* the store is ordered most-recent-first: identifiers were issued in decreasing order
MostRecentFirst(st) ==
    \A i, j \in 1 .. Len(st) : i < j => st[i].id[2] > st[j].id[2]

\* C13: a step that is one createEntry(e) on a store holding S (a product edit, or the
\* rollback entry of a successful rollback) leaves the first MAX_ENTRIES elements of
\* (e followed by S), e carrying the fresh id; when S was at capacity exactly its oldest
\* entry is evicted, otherwise none is; and the store is ordered most-recent-first after
\* every step.
Thm_C13_CreateEntryPrepends ==
    [][/\ nextId' = nextId + 1 =>
              /\ store' # <<>>
              /\ store'[1].id = HistId(nextId)
              /\ store' = SubSeq(<<store'[1]>> \o store, 1, Min(Len(store) + 1, MAX_ENTRIES))
              /\ Len(store) = MAX_ENTRIES =>
                     Entries(store) \ Entries(store') = {store[MAX_ENTRIES]}
              /\ Len(store) < MAX_ENTRIES => Entries(store) \subseteq Entries(store')
       /\ MostRecentFirst(store')]_vars

\* the store is at capacity, holds the MAX_ENTRIES newest entries in order, and the
\* first entry ever created is no longer in it
Wit_C13_CreateEntryPrepends ==
    /\ Len(store) = MAX_ENTRIES
    /\ nextId - MAX_ENTRIES > 1
    /\ \A i \in 1 .. MAX_ENTRIES :
           store[i].id = HistId(nextId - i) /\ store[i].action = "Product Updated"

\* the conjunction of the filter fields that are set, on one entry
Satisfies(e, filter) ==
    /\ filter.category # "" => e.category = filter.category
    /\ filter.operationType # "" => e.operationType = filter.operationType
    /\ filter.status # "" => e.status = filter.status
    /\ filter.productId # 0 =>
           (e.productId = filter.productId \/ filter.productId \in e.affectedProducts)
    /\ filter.batchId # Undefined =>
           (e.batchId = filter.batchId \/ e.parentBatchId = filter.batchId)
    /\ filter.searchTerm # "" =>
           \E text \in {e.description, <<e.productTitle>>, <<e.sku>>} :
               \E i \in 1 .. Len(text) :
                   ToLowerCase(text[i]) = ToLowerCase(filter.searchTerm)
    /\ filter.dateRange.present =>
           /\ filter.dateRange.start >= 0 /\ filter.dateRange.end >= 0
           /\ filter.dateRange.start <= e.timestamp
           /\ e.timestamp <= filter.dateRange.end

\* C14: a call getFilteredEntries(filter) returns exactly the stored entries that
\* satisfy every filter field that is set, in store order (with no field set: the whole
\* store); the call leaves the store unchanged; and the same call repeated with no
\* write in between returns the same result.
Thm_C14_FilterConjunctive ==
    [][\A filter \in Filters(store) :
           GetFilteredEntriesCall(filter) =>
               /\ store' = store
               /\ queried'.result = SelectSeq(store, LAMBDA e : Satisfies(e, filter))
               /\ filter = NoFilter => queried'.result = store
               /\ (queried.calls = 1 /\ queried.filter = filter)
                      => queried'.result = queried.result]_vars

\* the same filter on category, productId and search term has been applied twice to
\* a store in which it keeps some entries and excludes others, one of the kept ones
\* matching the product through affectedProducts only
Wit_C14_FilterConjunctive ==
    /\ queried.calls = 2
    /\ queried.filter.category # "" /\ queried.filter.productId # 0
    /\ queried.filter.searchTerm # ""
    /\ queried.result # <<>>
    /\ Len(queried.result) < Len(store)
    /\ \E i \in 1 .. Len(queried.result) :
           queried.result[i].productId # queried.filter.productId

\* the batch ids that occur in the store, and one that does not
BatchIdsOf(st) ==
    ({st[i].batchId : i \in 1 .. Len(st)} \ {Undefined}) \cup {NewBatchId(0)}

\* C15 as stated: for every store and every batch id b, getBatchHistory(b) and
\* getBulkOperationItems(b) each return the same entries as
\* getFilteredEntries({batchId: b}).
Cex_C15_SamePredicate ==
    \A b \in BatchIdsOf(store) :
        /\ GetBatchHistory(store, b) = GetFilteredEntries(store, BatchFilter(b))
        /\ GetBulkOperationItems(store, b) = GetFilteredEntries(store, BatchFilter(b))

\* C15 amended: getBatchHistory(b) returns the same entries as
\* getFilteredEntries({batchId: b}); getBulkOperationItems(b) returns the part of that
\* result whose parentBatchId is b, that is the child entries: the aggregate entry of
\* the batch and the rollback entries, which carry b as batchId only, are left out.
Thm_C15_ItemsAreChildrenOnly ==
    \A b \in BatchIdsOf(store) :
        LET q     == GetFilteredEntries(store, BatchFilter(b))
            items == GetBulkOperationItems(store, b)
        IN  /\ GetBatchHistory(store, b) = q
            /\ items = SelectSeq(q, LAMBDA e : e.parentBatchId = b)
            /\ \A e \in Range(q) \ Range(items) : e.action \in {"bulk_operation", "rollback"}
            /\ \A e \in Range(items) : e.action = "individual_item_in_bulk"

\* a batch is stored with its aggregate, a child and the rollback entry of a child:
\* the items are some but not all of what the batchId filter returns
Wit_C15_ItemsAreChildrenOnly ==
    \E b \in BatchIdsOf(store) :
        LET q     == GetFilteredEntries(store, BatchFilter(b))
            items == GetBulkOperationItems(store, b)
        IN  /\ items # <<>>
            /\ \E e \in Range(q) \ Range(items) : e.action = "bulk_operation"
            /\ \E e \in Range(q) \ Range(items) : e.action = "rollback"

\* the batches a step recorded
NewBatches == recorded' \ recorded

\* C16 as stated: recording a further batch B' (the retry of the failed subset of B)
\* gives B' # B and leaves the result of the query by batchId B as it was.
Cex_C16_RetryLeavesBatch ==
    [][\A new \in NewBatches : \A b \in recorded :
           /\ new.batchId # b.batchId
           /\ GetFilteredEntries(store', BatchFilter(b.batchId))
                  = GetFilteredEntries(store, BatchFilter(b.batchId))]_vars

\* C16 amended: B' # B, no entry recorded for B' matches B, and no entry of B is changed
\* or re-tagged; the query by batchId B returns afterwards the newest part of what it
\* returned before, and all of it unless recording B' made the store exceed its
\* capacity, in which case the oldest entries (those of B among them) are evicted.
Thm_C16_RetryKeepsOrEvicts ==
    [][\A new \in NewBatches : \A b \in recorded :
           LET before == GetFilteredEntries(store, BatchFilter(b.batchId))
               after  == GetFilteredEntries(store', BatchFilter(b.batchId))
           IN  /\ new.batchId # b.batchId
               /\ \A e \in NewEntries :
                      e.batchId = new.batchId /\ e.parentBatchId # b.batchId
               /\ IsPrefix(after, before)
               /\ Len(store) + new.size + 1 <= MAX_ENTRIES => after = before]_vars

\* two batches are stored whole, the newer one recorded after the older one
Wit_C16_RetryKeepsOrEvicts ==
    \E b1, b2 \in recorded :
        /\ b1.batchId # b2.batchId
        /\ Len(GetFilteredEntries(store, BatchFilter(b1.batchId))) = b1.size + 1
        /\ Len(GetFilteredEntries(store, BatchFilter(b2.batchId))) = b2.size + 1

\* C17: when "Retry Failed Items" is clicked with a non-empty set F of failed
\* variants, the run that the retry starts issues remote calls for exactly the
\* variants of F: when the timer of the retry fires a run starts, its variants are F
\* and its first requests go to variants of F
Cex_C17_RetryRunsFailed ==
    [][run.pc = "retry" /\ run'.pc # "retry"
         => /\ run'.pc = "await"
            /\ run'.selectedVariants = FailedVariantIds(results)
            /\ Range(requests') \subseteq Range(FailedVariantIds(results))]_vars

\* the inputs that the validation of applyDiscount rejects
Rejected(variantIds, discountPercentage, expiryDate) ==
    \/ Len(variantIds) = 0
    \/ discountPercentage <= 0 \/ discountPercentage >= 100
    \/ expiryDate = "past"

\* C18: applyDiscount with an empty selection, a discount percentage <= 0 or >= 100,
\* or an expiry date that is not in the future only sets the error message: no
\* request is issued, no run and no progress tracking start, and the history is
\* not written
Thm_C18_ValidationFirst ==
    [][(\/ \E p \in Percentages, d \in ExpiryDates :
              ClickApplyDiscount(p, d) /\ Rejected(selectedVariants, p, d)
        \/ RetryTimerFires /\ Rejected(run.selectedVariants, 10, ""))
         => /\ message' = "error"
            /\ run'.pc = "idle"
            /\ UNCHANGED <<requests, inFlight, isApplying, isProcessing, processProgress,
                           results, resetTimers, store, nextId, recorded>>]_vars

\* a call was rejected before any run: the message is the error and no request was
\* ever issued
Wit_C18_ValidationFirst ==
    /\ message = "error"
    /\ requests = <<>>
    /\ Len(selectedVariants) # 0
    /\ ~isProcessing /\ store = <<>>

\* C19: for every positive current price, every rule type, every rule value >= 0,
\* both directions and every rounding rule, the price calculateNewPrice returns is
\* at least 0.01 (one cent)
Cex_C19_AtLeastOneCent == calculated.calls > 0 => calculated.result >= 1

\* the reference evaluator, in exact arithmetic and in 1/10000 of the currency unit:
\* the base, clamped to at least 0.01, then rounded by the rounding rule
ReferenceBase(price, rule, action) ==
    CASE rule.type = "percentage" ->
             price * (IF action = "increase" THEN 100 + rule.value ELSE 100 - rule.value)
      [] rule.type = "fixed" ->
             IF action = "increase" THEN price * 100 + rule.value * 10000
                                    ELSE price * 100 - rule.value * 10000
      [] rule.type = "absolute" -> rule.value * 10000

ReferenceClamp(x) == IF x < 100 THEN 100 ELSE x

ReferencePrice(price, rule, action) ==
    LET x == ReferenceClamp(ReferenceBase(price, rule, action))
    IN  CASE rule.roundingRule = "nearest_99" -> (x \div 10000) * 10000 + 9900
          [] rule.roundingRule = "nearest_95" -> (x \div 10000) * 10000 + 9500
          [] rule.roundingRule = "nearest_00" -> ((x + 5000) \div 10000) * 10000
          [] OTHER -> x

\* C20: calculateNewPrice equals the reference evaluator on every input of the
\* bounded set: wherever the reference value is a whole number of cents, the price
\* returned is that number of cents
Cex_C20_EqualsReference ==
    calculated.calls > 0
        => LET ref == ReferencePrice(calculated.currentPrice, calculated.rule,
                                     calculated.action)
           IN  ref % 100 = 0 => calculated.result * 100 = ref

\* the messages of the results rollbackOperation returns
ReturnedMessages ==
    {"History entry not found", "This operation cannot be rolled back",
     "Rollback not implemented", "File rollback not yet implemented",
     "Unknown rollback type", "Failed to rollback", "Rolled back", "rolled back"}

\* C21: rollbackOperation never throws: every call ends by returning a result, for
\* the entry it was called with; and when the result has success = false (the remote
\* call was rejected or failed, the rollback type is file_restore or unknown, the
\* operation type has no rollback implementation) the call leaves the history as it
\* was: no rollback entry is appended.
Thm_C21_FailuresReturned ==
    [][RollbackReturns =>
          /\ rbResult'.message \in ReturnedMessages
          /\ rb.pc # "idle" => rbResult'.entryId = rb.entry.id
          /\ ~rbResult'.success => (store' = store /\ nextId' = nextId)]_vars

\* a rollback of an entry marked canRollback with rollbackType file_restore has
\* returned "not implemented", and the history holds no rollback entry
Wit_C21_FailuresReturned ==
    /\ rb.pc = "idle"
    /\ ~rbResult.success
    /\ rbResult.message = "File rollback not yet implemented"
    /\ \E e \in Entries(store) : e.id = rbResult.entryId /\ CanRollback(e)
    /\ Count(store, "rollback") = 0

\* the ids executeBatchRollback has collected after a step: in its locals while the
\* call goes on, in the result when it has returned
AffectedAfter == IF rb'.pc = "batch" THEN rb'.affected ELSE rbResult'.affectedEntries

ErrorsAfter == IF rb'.pc = "batch" THEN rb'.errors ELSE rbResult'.errors

\* C22: a batch rollback issues the calls for the children of the batch one at a time
\* (a request is issued only when every earlier child is accounted for), goes on with
\* the next child after a child failed, and returns affectedEntries = the ids of the
\* children whose call succeeded, one error for every other child, and success = true
\* iff there is no error
Thm_C22_BatchRollbackTally ==
    [][rb.pc = "batch" =>
          /\ Len(rbRequests) <= Len(rb.affected) + Len(rb.errors) + 1
          /\ Len(rb.affected) + Len(rb.errors) = rb.idx - 1
          /\ rbRequests[Len(rbRequests)] = rb.children[rb.idx]
          /\ RollbackResponse("ok") => rb.children[rb.idx].id \in Range(AffectedAfter)
          /\ (RollbackResponse("not_ok") \/ RollbackResponse("rejected"))
                 => rb.children[rb.idx].id \in Range(ErrorsAfter)
          /\ (rb' # rb /\ rb'.pc = "batch")
                 => /\ rb'.idx > rb.idx /\ rb'.children = rb.children
                    /\ Len(rbRequests') = Len(rbRequests) + 1
          /\ rb'.pc = "idle"
                 => /\ Len(rbResult'.affectedEntries) + Len(rbResult'.errors)
                           = Len(rb.children)
                    /\ Range(rbResult'.affectedEntries) \cup Range(rbResult'.errors)
                           = {rb.children[i].id : i \in 1 .. Len(rb.children)}
                    /\ Range(rbResult'.affectedEntries) \cap Range(rbResult'.errors) = {}
                    /\ Range(rbResult'.affectedEntries) \subseteq
                           {rbRequests[i].id : i \in 1 .. Len(rbRequests)}
                    /\ rbResult'.success <=> rbResult'.errors = <<>>]_vars

\* a batch rollback has returned after its first child failed and its second child
\* succeeded
Wit_C22_BatchRollbackTally ==
    /\ rb.pc = "idle"
    /\ ~rbResult.success
    /\ Len(rbRequests) = 2
    /\ rbResult.errors = <<rbRequests[1].id>>
    /\ rbResult.affectedEntries = <<rbRequests[2].id>>

\* C23: while localStorage.setItem throws, createEntry and createBulkOperation still
\* return (the product edit gets its entry back, the run gets its batch back), the
\* stored history is left exactly as it was, and a run in progress goes on: it
\* completes with its results and proceeds to the refresh
Thm_C23_WriteFailureSwallowed ==
    [][storageFull =>
          /\ store' = store
          /\ CreateProductHistoryEntry(1) => nextId' = nextId + 1
          /\ (run.pc = "await" /\ run'.pc = "refresh" /\ SucceededVariants # {})
                 => /\ NewBatches # {}
                    /\ results' = run'.allResults
                    /\ message' # "error"
                    /\ isApplying']_vars

\* a run has completed while the storage was full: its batch was returned and the
\* run waits for the refresh, and nothing is stored
Wit_C23_WriteFailureSwallowed ==
    /\ storageFull
    /\ run.pc = "refresh"
    /\ recorded # {}
    /\ store = <<>>

\* C24: between groups the run suspends for the inter-group delay exactly once before
\* the first request of the next group is issued, and no delay follows the last
\* group. When a group that is not the last has resolved the run starts the delay and
\* issues nothing; the delay ends in one step, which issues the requests of the next
\* group; requests of a running run are issued by no other step; and when the last
\* group has resolved the run goes on to its completion and history recording.
Thm_C24_DelayBetweenGroups ==
    [][/\ (run.pc = "await" /\ run'.pc # "await")
            => /\ run.batchIndex < Len(run.batches)
                    => /\ run'.pc \in {"delay", "idle"}
                       /\ requests' = requests
               /\ run.batchIndex = Len(run.batches) => run'.pc \in {"refresh", "idle"}
               /\ run'.pc = "idle" => SomeRejected(run.batchPromises)
       /\ (run.pc = "delay" /\ run' # run)
            => /\ run'.pc = "await"
               /\ run'.batchIndex = run.batchIndex + 1
               /\ requests' = requests \o run.batches[run.batchIndex + 1]
       /\ (run.pc \notin {"idle", "retry"} /\ requests' # requests) => run.pc = "delay"
       /\ run'.pc = "delay" => run'.batchIndex < Len(run'.batches)
       /\ (run'.pc = "refresh" /\ run.pc # "refresh")
            => (run.pc = "await" /\ run.batchIndex = Len(run.batches))]_vars

\* a run of two groups has gone through its delay and reached the refresh
Wit_C24_DelayBetweenGroups ==
    /\ run.pc = "refresh"
    /\ Len(run.batches) = 2
    /\ requests = run.selectedVariants

\* C25: a rollback that follows a successful apply of a discount to a variant, and that
\* the handler counts as rolled back, leaves the variant with the price and the
\* compare_at_price it had before the apply
Cex_C25_RollbackRestores ==
    [][(/\ remote.response.handler = "apply"
        /\ remote.response.status = 200
        /\ remote.response.results[1].success
        /\ remote'.response.handler \in {"rollback", "rollback_enhanced"}
        /\ remote'.response.successful = 1)
       => remote'.variants[1] = VariantValues(remote.applied[1].price,
                                              remote.applied[1].compare_at_price)]_vars

\* C29: every variant update the apply-discount handler sends has a compare_at_price
\* strictly greater than its price, as sent (the two-decimal strings)
Cex_C29_CompareAbovePrice ==
    remote.response.handler = "apply" =>
        \A i \in 1 .. Len(remote.response.sent) :
            remote.response.sent[i].compare_at_price > remote.response.sent[i].price

\* the results that report success, and the updates the remote store accepted
Succeeded(res) == SelectSeq(res, LAMBDA r : r.success)

Accepted(sent) == SelectSeq(sent, LAMBDA u : u.ok)

\* C30: the apply-discount handler answers a valid request with exactly one result per
\* requested variant id, in request order, and the results that report success are, in
\* order, the updates the remote store accepted; a request that fails the validation is
\* answered with an error, before any variant is touched
Thm_C30_OneResultPerVariant ==
    remote.response.handler = "apply" =>
        LET response == remote.response
        IN  IF response.status = 200
            THEN /\ Len(response.results) = Len(response.variantIds)
                 /\ \A i \in 1 .. Len(response.variantIds) :
                        response.results[i].variantId = response.variantIds[i]
                 /\ Len(Succeeded(response.results)) = Len(Accepted(response.sent))
                 /\ \A k \in 1 .. Len(Succeeded(response.results)) :
                        /\ Succeeded(response.results)[k].variantId =
                               Accepted(response.sent)[k].variantId
                        /\ Succeeded(response.results)[k].newPrice =
                               Accepted(response.sent)[k].price
            ELSE response.results = <<>> /\ response.sent = <<>>

\* two different variants were requested; the first failed and the second succeeded
Wit_C30_OneResultPerVariant ==
    /\ remote.response.handler = "apply"
    /\ remote.response.status = 200
    /\ Len(remote.response.variantIds) = batchSize
    /\ remote.response.variantIds[1] # remote.response.variantIds[2]
    /\ ~remote.response.results[1].success
    /\ remote.response.results[2].success

\* C28: in every response of the bulk-price-update handler, successful + failed equals
\* total
Cex_C28_TotalsAccountForAll ==
    remote.response.handler = "bulk_price_update" =>
        remote.response.successful + remote.response.failed = remote.response.total

\* C26: when the last rollbackOperation call returned success for an entry, the next
\* rollbackOperation call for the same entry is rejected: it returns success = false at
\* once and issues no request
Cex_C26_RolledBackOnce ==
    [][\A id \in Ids(store) :
           (rbResult.success /\ rbResult.entryId = id /\ RollbackOperation(id))
               => (rb'.pc = "idle" /\ rbRequests' = <<>> /\ ~rbResult'.success)]_vars

\* C27: while a run (applyDiscount or rollbackDiscounts) is active, isProcessing is true
\* and the progress tally has total equal to the size of the run, with
\* completed = successful + failed <= total
Cex_C27_ActiveRunKeepsProgress ==
    run.pc # "idle" =>
        /\ isProcessing
        /\ processProgress.total = Len(run.selectedVariants)
        /\ processProgress.completed = processProgress.successful + processProgress.failed
        /\ processProgress.completed <= processProgress.total

====
